---- MODULE Spec2Model ----
(***************************************************************************)
(* A model of monchecker's trend engine (pkg/trend), its running summary   *)
(* (pkg/summary) and the monitoring loop that drives them (cmd/analyzer).  *)
(*                                                                         *)
(* float64 quantities computed by the engine (means, deviations, slopes)   *)
(* are fixed-point integers in units of 1/Scale; the readings carried by   *)
(* a sample (percentages, degrees, counts) are whole numbers.              *)
(***************************************************************************)
EXTENDS Integers, Sequences, FiniteSets, TLC

VARIABLES
    cfg,                  \* TrendAnalyzer configuration: [window, longTermWindow]
    history,              \* TrendAnalyzer.history
    tempHistory,          \* TrendAnalyzer.tempHistory: sensor -> series
    longTermTempHistory,  \* TrendAnalyzer.longTermTempHistory: sensor -> series
    added,                \* every sample passed to AddStats so far, in order
    result,               \* what the last Analyze call returned (Nil or a Trend)
    summary,              \* the SystemSummary of the monitor
    files,                \* names of the files written so far
    active,               \* handlers of the monitoring loop that are running
    stage,                \* position inside the stats-tick handler
    stopped,              \* the shutdown signal has been handled
    tick,                 \* what the stats-tick handler holds and did
    clock,                \* stats ticks taken so far; stands for time.Now()
    err,                  \* whether the last SaveSnapshot call returned an error
    fnArg,                \* argument of the function under study
    fnOut                 \* its result

vars == <<cfg, history, tempHistory, longTermTempHistory, added, result, summary,
          files, active, stage, stopped, tick, clock, err, fnArg, fnOut>>

engineVars == <<history, tempHistory, longTermTempHistory>>
loopVars == <<summary, active, stage, stopped, tick, clock>>
fnVars == <<fnArg, fnOut>>

-----------------------------------------------------------------------------
(* Bounds of the model *)

MaxWindow == 3          \* windows 0..MaxWindow are explored
MaxLongWindow == 2      \* capacity of the long-term series
MaxAdds == 3            \* AddStats calls per behaviour of the engine
MaxTicks == 3           \* stats ticks per behaviour of the monitoring loop
MaxProcs == 3           \* entries of a process list under deduplication
ScenarioWindow == 5     \* window of the engine of the CPU jump scenario
ScenarioSteady == 9     \* samples of the scenario before the jump
MaxUpdates == 12        \* Update calls on a summary taken alone
MaxLen == 4             \* values of a series handed to the statistics

(* Program constants *)
SqrtIterations == 10          \* trend.go: sqrt runs ten Newton steps
LongTermMinSamples == 10      \* trend.go: long-term slope needs more than 10 readings
SummaryHistoryLen == 10       \* summary.go: per-key history of the summary
StressDumpLevel == 85         \* main.go: SystemStress >= 85 asks for a crash dump

(* Fixed-point scale: one unit is what sqrt's halvings of 1.0 reach *)
Scale == 2 ^ SqrtIterations

(* Engine thresholds, as the flags of cmd/analyzer default them *)
AnomalyThreshold == 2 * Scale          \* -anomaly-threshold 2
TrendThreshold == Scale \div 10         \* -trend-threshold 0.1
TempThreshold == 70 * Scale            \* -temp-threshold 70

Nil == [nil |-> TRUE]

-----------------------------------------------------------------------------
(* Arithmetic helpers *)

Abs(x) == IF x < 0 THEN -x ELSE x

Min2(a, b) == IF a < b THEN a ELSE b

Max2(a, b) == IF a > b THEN a ELSE b

\* Quotient truncated toward zero, as float division followed by the model's
\* rounding to a multiple of 1/Scale.
TDiv(a, b) == IF (a >= 0) = (b > 0) THEN Abs(a) \div Abs(b) ELSE -(Abs(a) \div Abs(b))

\* a * b / c for a, c >= 0 without leaving 32 bits: a = q*c + r.
MulDiv(a, b, c) == (a \div c) * b + ((a % c) * b) \div c

\* Product of two fixed-point numbers.
FxMul(a, b) ==
    LET x == Abs(a)
        y == Abs(b)
        p == (x \div Scale) * y + ((x % Scale) * y) \div Scale
    IN IF (a >= 0) = (b >= 0) THEN p ELSE -p

RECURSIVE SumSeq(_)
SumSeq(s) == IF s = <<>> THEN 0 ELSE Head(s) + SumSeq(Tail(s))

RECURSIVE MaxSeq(_)
MaxSeq(s) == IF Len(s) = 1 THEN s[1] ELSE Max2(Head(s), MaxSeq(Tail(s)))

RECURSIVE MinSeq(_)
MinSeq(s) == IF Len(s) = 1 THEN s[1] ELSE Min2(Head(s), MinSeq(Tail(s)))

\* The last n elements of s (all of s when it is shorter).
LastN(s, n) == IF Len(s) <= n THEN s ELSE SubSeq(s, Len(s) - n + 1, Len(s))

RECURSIVE SetToSeqs(_)
\* All orders in which the elements of a set can be visited (Go map iteration).
SetToSeqs(S) ==
    IF S = {} THEN {<<>>}
    ELSE UNION {{<<x>> \o t : t \in SetToSeqs(S \ {x})} : x \in S}

EmptyMap == [k \in {} |-> <<>>]

\* The one element of a singleton set.  A value that is used several times is
\* bound once as the element of a singleton, {F(x) : x \in {e}}, and taken
\* out again with The.
The(S) == CHOOSE x \in S : TRUE

-----------------------------------------------------------------------------
(* TrendAnalyzer.AddStats *)

\* AppendBounded without the eviction
AppendUnbounded(series, v, cap) == Append(series, v)

\* AppendBounded that drops the newest entry instead of the oldest
AppendDropNewest(series, v, cap) ==
    LET a == Append(series, v)
    IN IF Len(a) > cap THEN SubSeq(a, 1, Len(a) - 1) ELSE a

\* append, then drop the oldest entry when the capacity is exceeded
AppendBounded(series, v, cap) ==
    LET a == Append(series, v)
    IN IF Len(a) > cap THEN Tail(a) ELSE a

SeriesOf(m, name) == IF name \in DOMAIN m THEN m[name] ELSE <<>>

\* AddSensors that keeps only the sensors of the sample
AddSensorsForgetful(m, sensors, cap) ==
    [name \in DOMAIN sensors |-> AppendBounded(SeriesOf(m, name), sensors[name], cap)]

\* AddSensors that empties the series of the sensors the sample lacks
AddSensorsResetAbsent(m, sensors, cap) ==
    [name \in DOMAIN m \cup DOMAIN sensors |->
        IF name \in DOMAIN sensors
        THEN AppendBounded(SeriesOf(m, name), sensors[name], cap)
        ELSE <<>>]

\* one series map after the sensors of a sample have been appended to it
AddSensors(m, sensors, cap) ==
    [name \in DOMAIN m \cup DOMAIN sensors |->
        IF name \in DOMAIN sensors
        THEN AppendBounded(SeriesOf(m, name), sensors[name], cap)
        ELSE m[name]]

AddStats(stats) ==
    /\ history' = AppendBounded(history, stats, cfg.window)
    /\ tempHistory' = AddSensors(tempHistory, stats.temp, cfg.window)
    /\ longTermTempHistory' = AddSensors(longTermTempHistory, stats.temp, cfg.longTermWindow)

-----------------------------------------------------------------------------
(* Statistics of trend.go.  Their arguments and results are fixed-point. *)

Fx(series) == [i \in DOMAIN series |-> series[i] * Scale]

RECURSIVE sqrtIter(_, _, _)
\* k more Newton steps from z.  The step z - (z*z - x)/(2*z) of the source is
\* written (z + x/z)/2, the same number, which keeps the model's products small.
sqrtIter(x, z, k) ==
    IF k = 0 THEN z
    ELSE sqrtIter(x, (z + MulDiv(x, Scale, z)) \div 2, k - 1)

sqrt(x) == sqrtIter(x, Scale, SqrtIterations)

RECURSIVE SumSqDiff(_, _)
SumSqDiff(values, mean) ==
    IF values = <<>> THEN 0
    ELSE FxMul(Head(values) - mean, Head(values) - mean) + SumSqDiff(Tail(values), mean)

calculateStats(values) ==
    IF Len(values) = 0 THEN [mean |-> 0, stdDev |-> 0]
    ELSE The({[mean |-> mean,
               stdDev |-> sqrt(TDiv(SumSqDiff(values, mean), Len(values)))] :
              mean \in {TDiv(SumSeq(values), Len(values))}})

RECURSIVE TrendSums(_, _, _)
\* the four sums of the regression loop, x counting from 0
TrendSums(values, x, acc) ==
    IF values = <<>> THEN acc
    ELSE TrendSums(Tail(values), x + 1,
                   [sumX |-> acc.sumX + x,
                    sumY |-> acc.sumY + Head(values),
                    sumXY |-> acc.sumXY + x * Head(values),
                    sumX2 |-> acc.sumX2 + x * x])

\* n*sumX2 - sumX*sumX, the divisor of the slope of n values
TrendDenominator(n) ==
    LET t == TrendSums([i \in 1..n |-> 0], 0, [sumX |-> 0, sumY |-> 0, sumXY |-> 0, sumX2 |-> 0])
    IN n * t.sumX2 - t.sumX * t.sumX

\* the rise from the first value to the last over the number of values
calculateTrendRise(values) ==
    IF Len(values) < 2 THEN 0
    ELSE TDiv(values[Len(values)] - values[1], Len(values))

calculateTrend(values) ==
    IF Len(values) < 2 THEN 0
    ELSE LET n == Len(values)
         IN The({TDiv(n * t.sumXY - t.sumX * t.sumY, n * t.sumX2 - t.sumX * t.sumX) :
                 t \in {TrendSums(values, 0, [sumX |-> 0, sumY |-> 0, sumXY |-> 0, sumX2 |-> 0])}})

\* detectAnomalyWithThreshold that looks above the mean only
detectAnomalyAbove(values, mean, stdDev, threshold) ==
    IF Len(values) = 0 \/ stdDev = 0 THEN FALSE
    ELSE TDiv((values[Len(values)] - mean) * Scale, stdDev) > threshold

detectAnomalyWithThreshold(values, mean, stdDev, threshold) ==
    IF Len(values) = 0 \/ stdDev = 0 THEN FALSE
    ELSE LET zScore == TDiv((values[Len(values)] - mean) * Scale, stdDev)
         IN zScore > threshold \/ zScore < -threshold

\* detectTrendAnomaly that never fires
detectTrendAnomalyNever(trend, trendThreshold) == FALSE

detectTrendAnomaly(trend, trendThreshold) == Abs(trend) > trendThreshold

\* mean, deviation, slope and anomaly flag of one of the three scalar metrics
MetricTrend(values, c) ==
    The({[Mean |-> st.mean, StdDev |-> st.stdDev, Trend |-> tr,
          Anomaly |-> detectAnomalyWithThreshold(values, st.mean, st.stdDev, c.anomalyThreshold)
                      \/ detectTrendAnomaly(tr, c.trendThreshold)] :
         st \in {calculateStats(values)}, tr \in {calculateTrend(values)}})

-----------------------------------------------------------------------------
(* TrendAnalyzer.Analyze *)

\* Exceeds that also fires at the threshold itself
ExceedsOrEquals(max, tempThreshold) == max >= tempThreshold

\* sensorStats.Max > t.tempThreshold
Exceeds(max, tempThreshold) == max > tempThreshold

\* the statistics of one sensor's short series, which is not empty
SensorStats(temps, longTermTemps, c) ==
    The({[Mean |-> st.mean, StdDev |-> st.stdDev, Trend |-> trendValue,
          Anomaly |-> \/ detectAnomalyWithThreshold(Fx(temps), st.mean, st.stdDev, c.anomalyThreshold)
                      \/ detectTrendAnomaly(trendValue, c.trendThreshold)
                      \/ detectTrendAnomaly(longTermTrend, c.trendThreshold \div 2)
                      \/ Exceeds(max, c.tempThreshold),
          Max |-> max, Min |-> MinSeq(Fx(temps)),
          AbsoluteThreshold |-> c.tempThreshold,
          ThresholdExceeded |-> Exceeds(max, c.tempThreshold)] :
         st \in {calculateStats(Fx(temps))},
         trendValue \in {calculateTrend(Fx(temps))},
         longTermTrend \in {IF Len(longTermTemps) > LongTermMinSamples
                            THEN calculateTrend(Fx(longTermTemps)) ELSE 0},
         max \in {MaxSeq(Fx(temps))}})

RECURSIVE SensorLoop(_, _, _, _, _)
\* one pass of the loop over tempHistory: the sensor name, whose statistics are ss
SensorStep(acc, name, temps, ss) ==
    [Sensors |-> [n \in DOMAIN acc.Sensors \cup {name} |->
                    IF n = name THEN ss ELSE acc.Sensors[n]],
     allTemps |-> acc.allTemps \o Fx(temps),
     maxTemps |-> Append(acc.maxTemps, ss.Max),
     avgTemps |-> Append(acc.avgTemps, ss.Mean),
     Max |-> IF ss.Max > acc.Max THEN ss.Max ELSE acc.Max,
     Min |-> IF acc.Min = 0 \/ ss.Min < acc.Min THEN ss.Min ELSE acc.Min,
     ThresholdExceeded |-> acc.ThresholdExceeded \/ ss.ThresholdExceeded]

\* the loop over tempHistory, visiting the sensors in the order ord
SensorLoop(ord, th, lth, c, acc) ==
    IF ord = <<>> THEN acc
    ELSE IF Len(th[Head(ord)]) = 0 THEN SensorLoop(Tail(ord), th, lth, c, acc)
    ELSE The({SensorLoop(Tail(ord), th, lth, c, next) :
              next \in {SensorStep(acc, Head(ord), th[Head(ord)], ss) :
                        ss \in {SensorStats(th[Head(ord)], SeriesOf(lth, Head(ord)), c)}}})

RECURSIVE Concat(_, _)
\* the series of m appended to one another in the order ord
Concat(ord, m) == IF ord = <<>> THEN <<>> ELSE m[Head(ord)] \o Concat(Tail(ord), m)

\* the Temperature block; ord and lord are the orders in which the two maps are visited
TemperatureBlock(acc, pooled, tempTrendValue, longTermTrend, c) ==
    LET some == Len(acc.allTemps) > 0
        max == IF Len(acc.maxTemps) > 0 THEN MaxSeq(acc.maxTemps) ELSE acc.Max
    IN [Mean |-> IF Len(acc.avgTemps) > 0
                 THEN TDiv(SumSeq(acc.avgTemps), Len(acc.avgTemps))
                 ELSE IF some THEN pooled.mean ELSE 0,
        StdDev |-> IF some THEN pooled.stdDev ELSE 0,
        Trend |-> IF some THEN tempTrendValue ELSE 0,
        Anomaly |-> /\ some
                    /\ \/ detectAnomalyWithThreshold(acc.allTemps, pooled.mean, pooled.stdDev, c.anomalyThreshold)
                       \/ detectTrendAnomaly(tempTrendValue, c.trendThreshold)
                       \/ detectTrendAnomaly(longTermTrend, c.trendThreshold \div 2)
                       \/ acc.ThresholdExceeded,
        Max |-> max,
        Min |-> acc.Min,
        AbsoluteThreshold |-> c.tempThreshold,
        ThresholdExceeded |-> IF Len(acc.maxTemps) > 0 THEN Exceeds(max, c.tempThreshold)
                              ELSE acc.ThresholdExceeded,
        Sensors |-> acc.Sensors]

\* the long-term slope of all sensors together, visited in the order lord
PooledLongTermTrend(lth, lord) ==
    The({IF Len(allLongTermTemps) > LongTermMinSamples
         THEN calculateTrend(allLongTermTemps) ELSE 0 :
         allLongTermTemps \in {Fx(Concat(lord, lth))}})

TemperatureTrend(th, lth, c, ord, lord) ==
    The({TemperatureBlock(acc, calculateStats(acc.allTemps), calculateTrend(acc.allTemps),
                          PooledLongTermTrend(lth, lord), c) :
         acc \in {SensorLoop(ord, th, lth, c,
                     [Sensors |-> EmptyMap, allTemps |-> <<>>, maxTemps |-> <<>>,
                      avgTemps |-> <<>>, Max |-> 0, Min |-> 0, ThresholdExceeded |-> FALSE])}})

RECURSIVE FsHistory(_, _)
\* free-space percentages of one mount point over the samples that carry it
FsHistory(h, mountPoint) ==
    IF h = <<>> THEN <<>>
    ELSE LET stats == Head(h)
             rest == FsHistory(Tail(h), mountPoint)
         IN IF ~stats.fs.isNil /\ mountPoint \in DOMAIN stats.fs.parts
            THEN <<(100 - stats.fs.parts[mountPoint].usedPct) * Scale>> \o rest
            ELSE rest

\* the mount points of the samples of the history
FsKeys(h) == UNION {IF h[i].fs.isNil THEN {} ELSE DOMAIN h[i].fs.parts : i \in DOMAIN h}

\* a map lookup that misses gives the zero value
FsOf(stats, mountPoint) ==
    IF mountPoint \in DOMAIN stats.fs.parts THEN stats.fs.parts[mountPoint]
    ELSE [usedPct |-> 0, critical |-> FALSE, device |-> ""]

\* the statistics of one partition, whose free-space history has two entries or more
PartitionBlock(freeSpaceHistory, currentFs, mountPoint, c) ==
    The({[Mean |-> st.mean, StdDev |-> st.stdDev, Trend |-> trendValue,
          Anomaly |-> \/ detectAnomalyWithThreshold(freeSpaceHistory, st.mean, st.stdDev, c.anomalyThreshold)
                      \/ detectTrendAnomaly(trendValue, c.trendThreshold * 2),
          Min |-> MinSeq(freeSpaceHistory), Max |-> MaxSeq(freeSpaceHistory),
          Current |-> (100 - currentFs.usedPct) * Scale,
          Critical |-> (100 - currentFs.usedPct) * Scale < 10 * Scale,
          Device |-> currentFs.device, MountPoint |-> mountPoint] :
         st \in {calculateStats(freeSpaceHistory)},
         trendValue \in {calculateTrend(freeSpaceHistory)}})

PartitionStats(h, mountPoint, c) ==
    The({PartitionBlock(freeSpaceHistory, currentFs, mountPoint, c) :
         freeSpaceHistory \in {FsHistory(h, mountPoint)},
         currentFs \in {FsOf(h[Len(h)], mountPoint)}})

\* the mount points Analyze gives statistics for
Analysed(h) ==
    IF Len(h) > 0 /\ ~h[Len(h)].fs.isNil
    THEN {m \in FsKeys(h) : Len(FsHistory(h, m)) >= 2}
    ELSE {}

FilesystemTrend(h, c) ==
    The({[Partitions |-> parts,
          Anomaly |-> \E m \in DOMAIN parts : parts[m].Anomaly,
          Critical |-> \E m \in DOMAIN parts : parts[m].Critical] :
         parts \in {[m \in Analysed(h) |-> PartitionStats(h, m, c)]}})

-----------------------------------------------------------------------------
(* calculateSystemStress of trend.go *)

RECURSIVE SumOver(_, _)
\* the sum of f over a finite set of keys
SumOver(f, keys) ==
    IF keys = {} THEN 0
    ELSE LET k == CHOOSE x \in keys : TRUE
         IN f[k] + SumOver(f, keys \ {k})

\* TemperatureRisk that adds the anomaly bonus on top of a threshold breach
TemperatureRiskStacked(trend) ==
      (IF trend.Temperature.ThresholdExceeded THEN 50
       ELSE IF trend.Temperature.Max > 60 * Scale THEN 20
       ELSE IF trend.Temperature.Max > 50 * Scale THEN 10
       ELSE IF trend.Temperature.Max < -20 * Scale THEN 20
       ELSE IF trend.Temperature.Max < -10 * Scale THEN 10 ELSE 0)
    + (IF trend.Temperature.Anomaly THEN 15 ELSE 0)

\* what the temperature adds to the risk
TemperatureRisk(trend) ==
      (IF trend.Temperature.ThresholdExceeded THEN 50
       ELSE IF trend.Temperature.Max > 60 * Scale THEN 20
       ELSE IF trend.Temperature.Max > 50 * Scale THEN 10
       ELSE IF trend.Temperature.Max < -20 * Scale THEN 20
       ELSE IF trend.Temperature.Max < -10 * Scale THEN 10 ELSE 0)
    + (IF trend.Temperature.Anomaly /\ ~trend.Temperature.ThresholdExceeded THEN 15 ELSE 0)

\* PartitionRisk under which a critical partition that is also low gets both tiers
PartitionRiskStacked(mountPoint, fs) ==
    (IF fs.Critical
     THEN (IF mountPoint = "/" THEN 30 ELSE IF mountPoint = "/boot" THEN 25 ELSE 15)
     ELSE 0)
    + (IF fs.Current < 20 * Scale
       THEN (IF mountPoint = "/" THEN 15 ELSE IF mountPoint = "/boot" THEN 10 ELSE 5)
       ELSE 0)
    + (IF fs.Trend < -Scale THEN 15
       ELSE IF fs.Trend < -(Scale \div 2) THEN 5
       ELSE 0)

\* what one partition adds to the risk
PartitionRisk(mountPoint, fs) ==
    (IF fs.Critical
     THEN (IF mountPoint = "/" THEN 30 ELSE IF mountPoint = "/boot" THEN 25 ELSE 15)
     ELSE IF fs.Current < 20 * Scale
     THEN (IF mountPoint = "/" THEN 15 ELSE IF mountPoint = "/boot" THEN 10 ELSE 5)
     ELSE 0)
    + (IF fs.Trend < -Scale THEN 15
       ELSE IF fs.Trend < -(Scale \div 2) THEN 5
       ELSE 0)

\* the risk accumulated before it is capped
TrendRisk(trend) ==
      (IF trend.CPUUsage.Mean > 20 * Scale THEN 20
       ELSE IF trend.CPUUsage.Mean > 10 * Scale THEN 10 ELSE 0)
    + (IF trend.MemoryUsage.Mean > 90 * Scale THEN 30
       ELSE IF trend.MemoryUsage.Mean > 80 * Scale THEN 20
       ELSE IF trend.MemoryUsage.Mean > 70 * Scale THEN 10 ELSE 0)
    + (IF trend.ProcessCount.Mean > 100 * Scale THEN 20
       ELSE IF trend.ProcessCount.Mean > 50 * Scale THEN 10 ELSE 0)
    + (IF trend.ProcessCount.Anomaly THEN 20 ELSE 0)
    + (IF trend.CPUUsage.Anomaly THEN 20 ELSE 0)
    + TemperatureRisk(trend)
    + (IF trend.Filesystem.Critical THEN 40
       ELSE IF trend.Filesystem.Anomaly THEN 20 ELSE 0)
    + SumOver([m \in DOMAIN trend.Filesystem.Partitions |->
                  PartitionRisk(m, trend.Filesystem.Partitions[m])],
              DOMAIN trend.Filesystem.Partitions)

\* CapStress without the cap
Uncapped(risk) == risk

\* min(risk, 100.0)
CapStress(risk) == IF risk < 100 THEN risk ELSE 100

calculateSystemStress(trend) == CapStress(TrendRisk(trend))

-----------------------------------------------------------------------------
(* Analyze, assembled *)

cpuUsages(h) == [i \in DOMAIN h |-> (h[i].user + h[i].sys) * Scale]

memUsages(h) ==
    [i \in DOMAIN h |->
        IF h[i].memTotal > 0 THEN TDiv(h[i].memUsed * 100 * Scale, h[i].memTotal) ELSE 0]

procCounts(h) == [i \in DOMAIN h |-> Len(h[i].procs) * Scale]

\* TooShort that lets a single sample through
TooShortOffByOne(h) == Len(h) < 1

\* len(t.history) < 2: Analyze returns nil
TooShort(h) == Len(h) < 2

Analyze(h, th, lth, c, ord, lord) ==
    IF TooShort(h) THEN Nil
    ELSE The({[CPUUsage |-> t.CPUUsage, MemoryUsage |-> t.MemoryUsage,
               ProcessCount |-> t.ProcessCount, Temperature |-> t.Temperature,
               Filesystem |-> t.Filesystem, SystemStress |-> calculateSystemStress(t)] :
              t \in {[CPUUsage |-> MetricTrend(cpuUsages(h), c),
                      MemoryUsage |-> MetricTrend(memUsages(h), c),
                      ProcessCount |-> MetricTrend(procCounts(h), c),
                      Temperature |-> TemperatureTrend(th, lth, c, ord, lord),
                      Filesystem |-> FilesystemTrend(h, c)]}})

\* the orders in which Go may visit the keys of a map
Orders(m) == SetToSeqs(DOMAIN m)

-----------------------------------------------------------------------------
(* TrendAnalyzer.SaveSnapshot *)

\* Replaces under which the last entry of a command always wins
ReplacesAlways(proc, existingProc) == TRUE

\* the test under which a later entry replaces the one kept for its command
Replaces(proc, existingProc) == proc.vsz > existingProc.vsz \/ proc.cpu > existingProc.cpu

RECURSIVE DedupLoop(_, _)
\* processMap after the entries of procs have been visited in order
DedupLoop(procs, processMap) ==
    IF procs = <<>> THEN processMap
    ELSE LET proc == Head(procs)
             keep == IF proc.command \in DOMAIN processMap
                     THEN Replaces(proc, processMap[proc.command])
                     ELSE TRUE
         IN DedupLoop(Tail(procs),
                IF keep
                THEN [cmd \in DOMAIN processMap \cup {proc.command} |->
                         IF cmd = proc.command THEN proc ELSE processMap[cmd]]
                ELSE processMap)

\* command -> retained entry
Deduplicate(procs) == DedupLoop(procs, EmptyMap)

\* newStats of one stored sample; the order of its process list is the map's,
\* so the list is kept as the set of its entries
NewStats(stats) ==
    [user |-> stats.user, sys |-> stats.sys,
     memTotal |-> stats.memTotal, memUsed |-> stats.memUsed, load1 |-> stats.load1,
     temp |-> stats.temp,
     fs |-> IF stats.fs.isNil THEN EmptyMap ELSE stats.fs.parts,
     procs |-> LET processMap == Deduplicate(stats.procs)
               IN {processMap[cmd] : cmd \in DOMAIN processMap}]

\* DeduplicateHistory that deduplicates the stored samples themselves
DeduplicateInPlace(h) ==
    [doc |-> [i \in DOMAIN h |-> NewStats(h[i])],
     history |-> [i \in DOMAIN h |->
                    [h[i] EXCEPT !.procs =
                        SelectSeq(h[i].procs,
                                  LAMBDA p : p = Deduplicate(h[i].procs)[p.command])]]]

\* The copy loop: what the document holds, and what t.history holds after it.
\* The loop only reads stats and writes newStats.
DeduplicateHistory(h) ==
    [doc |-> [i \in DOMAIN h |-> NewStats(h[i])], history |-> h]

\* the storage summary of the document (its byte totals are left out)
StorageSummary(deduplicatedHistory) ==
    IF Len(deduplicatedHistory) = 0
    THEN [CriticalPartitions |-> {}, LowSpacePartitions |-> {}]
    ELSE LET latest == deduplicatedHistory[Len(deduplicatedHistory)]
         IN [CriticalPartitions |-> {m \in DOMAIN latest.fs : latest.fs[m].critical},
             LowSpacePartitions |-> {m \in DOMAIN latest.fs :
                                        ~latest.fs[m].critical /\ latest.fs[m].usedPct > 80}]

\* the document SaveSnapshot marshals
SnapshotDocument(h, th, lth, c, ord, lord) ==
    LET d == DeduplicateHistory(h).doc
    IN [Stats |-> d, Trend |-> Analyze(h, th, lth, c, ord, lord), Summary |-> StorageSummary(d)]

\* SaveSnapshot(filename); ok tells whether MkdirAll and WriteFile succeed.
\* It returns an error exactly when ok is false.
SaveSnapshot(filename, ok) ==
    /\ history' = DeduplicateHistory(history).history
    /\ UNCHANGED <<tempHistory, longTermTempHistory>>
    /\ files' = IF ok THEN files \cup {filename} ELSE files

-----------------------------------------------------------------------------
(* SystemSummary of summary.go *)

\* float64 values that are not numbers of the model
PosInf == 2 ^ 30
NaN == -(2 ^ 30)

\* a > b on float64: false when either side is NaN
FGt(a, b) == a # NaN /\ b # NaN /\ a > b

FLt(a, b) == a # NaN /\ b # NaN /\ a < b

NoFile == [dir |-> "", at |-> 0]

\* summary.New()
NewSummary ==
    [Timestamp |-> 0, LastCrashFile |-> NoFile, LastCrashTime |-> 0,
     CPU |-> [User |-> 0, System |-> 0, Load1 |-> 0],
     Memory |-> [Total |-> 0, Used |-> 0, UsedPc |-> 0],
     Temperature |-> [Sensors |-> EmptyMap, MaxTemp |-> 0, AvgTemp |-> 0, History |-> EmptyMap],
     Filesystem |-> [Partitions |-> EmptyMap, History |-> EmptyMap],
     Processes |-> [Total |-> 0, Running |-> 0, Sleeping |-> 0, Uninterr |-> 0,
                    Zombie |-> 0, HighCPU |-> 0, HighMem |-> 0, HighCPUProcs |-> <<>>],
     SystemStress |-> 0]

\* SummaryPartitionStress with the amounts of the engine's formula
SummaryPartitionStressAsEngine(mount, partition) ==
    IF partition.FreeSpace < 10
    THEN (IF mount = "/" THEN 30 ELSE IF mount = "/boot" THEN 25 ELSE 15)
    ELSE IF partition.FreeSpace < 20
    THEN (IF mount = "/" THEN 15 ELSE IF mount = "/boot" THEN 10 ELSE 5)
    ELSE 0

\* what one partition adds to the summary's stress
SummaryPartitionStress(mount, partition) ==
    IF partition.FreeSpace < 10
    THEN (IF mount = "/" THEN 40 ELSE IF mount = "/boot" THEN 30 ELSE 20)
    ELSE IF partition.FreeSpace < 20
    THEN (IF mount = "/" THEN 20 ELSE IF mount = "/boot" THEN 15 ELSE 10)
    ELSE 0

\* the stress accumulated before it is capped
SummaryRisk(s) ==
    LET totalCPU == s.CPU.User + s.CPU.System
        load == s.CPU.Load1
    IN (IF totalCPU > 90 THEN 30 ELSE IF totalCPU > 70 THEN 20
        ELSE IF totalCPU > 50 THEN 10 ELSE 0)
     + (IF FGt(s.Memory.UsedPc, 90 * Scale) THEN 30
        ELSE IF FGt(s.Memory.UsedPc, 70 * Scale) THEN 20
        ELSE IF FGt(s.Memory.UsedPc, 50 * Scale) THEN 10 ELSE 0)
     + (IF load > 10 THEN 30 ELSE IF load > 5 THEN 20 ELSE IF load > 2 THEN 10 ELSE 0)
     + (IF s.Temperature.MaxTemp > 70 THEN 30
        ELSE IF s.Temperature.MaxTemp > 60 THEN 20
        ELSE IF s.Temperature.MaxTemp > 50 THEN 10
        ELSE IF s.Temperature.MaxTemp < -20 THEN 20
        ELSE IF s.Temperature.MaxTemp < -10 THEN 10 ELSE 0)
     + (IF s.Processes.Uninterr > 5 THEN 20 ELSE 0)
     + (IF s.Processes.HighCPU > 10 THEN 20 ELSE 0)
     + SumOver([m \in DOMAIN s.Filesystem.Partitions |->
                   SummaryPartitionStress(m, s.Filesystem.Partitions[m])],
               DOMAIN s.Filesystem.Partitions)

\* calculateSystemStress of summary.go
SummaryStress(s) == CapStress(SummaryRisk(s))

\* float64(Used) / float64(total) * 100
UsedPercent(used, total) ==
    IF total = 0 THEN (IF used = 0 THEN NaN ELSE PosInf)
    ELSE TDiv(used * 100 * Scale, total)

\* number of entries of procs in the given state
RECURSIVE CountState(_, _)
CountState(procs, state) ==
    IF procs = <<>> THEN 0
    ELSE (IF Head(procs).state = state THEN 1 ELSE 0) + CountState(Tail(procs), state)

RECURSIVE HighCPUProcs(_)
HighCPUProcs(procs) ==
    IF procs = <<>> THEN <<>>
    ELSE (IF Head(procs).cpu > 10
          THEN <<[Name |-> Head(procs).command, CPUPercent |-> Head(procs).cpu]>>
          ELSE <<>>) \o HighCPUProcs(Tail(procs))

RECURSIVE CountHighMem(_)
CountHighMem(procs) ==
    IF procs = <<>> THEN 0
    ELSE (IF Head(procs).vsz > 5 THEN 1 ELSE 0) + CountHighMem(Tail(procs))

\* SummaryAppend that never drops an entry
SummaryAppendUnbounded(hist, key, v) == Append(SeriesOf(hist, key), v)

\* a key's history of the summary after v has been appended to it
SummaryAppend(hist, key, v) ==
    LET a == Append(SeriesOf(hist, key), v)
    IN IF Len(a) > SummaryHistoryLen THEN Tail(a) ELSE a

\* the largest of -100.0 and the readings
MaxFrom100(temps) == IF temps = <<>> THEN -100 ELSE Max2(-100, MaxSeq(temps))

\* the Temperature block after an Update with the readings sensors
\* the Temperature block whose histories are hist, all holding their readings
SummaryTemperatureBlock(old, sensors, hist, all) ==
    [Sensors |-> [n \in DOMAIN hist |->
                    [Value |-> IF n \in DOMAIN sensors THEN sensors[n] ELSE 0,
                     MaxTemp |-> MaxFrom100(hist[n]),
                     AvgTemp |-> TDiv(SumSeq(hist[n]) * Scale, Len(hist[n]))]],
     MaxTemp |-> MaxFrom100(all),
     AvgTemp |-> IF Len(all) > 0 THEN TDiv(SumSeq(all) * Scale, Len(all)) ELSE old.AvgTemp,
     History |-> hist]

SummaryTemperature(old, sensors) ==
    The({SummaryTemperatureBlock(old, sensors, hist,
                                 Concat(The(SetToSeqs(DOMAIN hist)), hist)) :
         hist \in {[n \in DOMAIN old.History \cup DOMAIN sensors |->
                      IF n \in DOMAIN sensors
                      THEN SummaryAppend(old.History, n, sensors[n])
                      ELSE old.History[n]]}})

\* the Filesystem block after an Update with the sample stats
SummaryFilesystem(old, stats) ==
    IF stats.fs.isNil THEN old
    ELSE LET parts == stats.fs.parts
         IN [Partitions |-> [m \in DOMAIN old.Partitions \cup DOMAIN parts |->
                                IF m \in DOMAIN parts
                                THEN [Device |-> parts[m].device, UsedPct |-> parts[m].usedPct,
                                      FreeSpace |-> 100 - parts[m].usedPct,
                                      Critical |-> parts[m].critical]
                                ELSE old.Partitions[m]],
             History |-> [m \in DOMAIN old.History \cup DOMAIN parts |->
                             IF m \in DOMAIN parts
                             THEN SummaryAppend(old.History, m, 100 - parts[m].usedPct)
                             ELSE old.History[m]]]

\* s.Update(stats, nil, tempStats, crashFile) at time now.  The stress is
\* computed before the filesystem block is refreshed.
Update(s, stats, tempStats, crashFile, now) ==
    The({[beforeStress EXCEPT !.SystemStress = SummaryStress(beforeStress),
                              !.Filesystem = SummaryFilesystem(s.Filesystem, stats)] :
         beforeStress \in {
            [Timestamp |-> now,
             LastCrashFile |-> IF crashFile # NoFile THEN crashFile ELSE s.LastCrashFile,
             LastCrashTime |-> IF crashFile # NoFile THEN now ELSE s.LastCrashTime,
             CPU |-> [User |-> stats.user, System |-> stats.sys, Load1 |-> stats.load1],
             Memory |-> [Total |-> stats.memTotal, Used |-> stats.memUsed,
                         UsedPc |-> UsedPercent(stats.memUsed, stats.memTotal)],
             Temperature |-> SummaryTemperature(s.Temperature, tempStats),
             Filesystem |-> s.Filesystem,
             Processes |-> [Total |-> Len(stats.procs),
                            Running |-> CountState(stats.procs, "R"),
                            Sleeping |-> CountState(stats.procs, "S"),
                            Uninterr |-> CountState(stats.procs, "D"),
                            Zombie |-> CountState(stats.procs, "Z"),
                            HighCPU |-> Len(HighCPUProcs(stats.procs)),
                            HighMem |-> CountHighMem(stats.procs),
                            HighCPUProcs |-> HighCPUProcs(stats.procs)],
             SystemStress |-> s.SystemStress]}})

\* json.Marshal refuses a float64 that is NaN or infinite
Serialisable(s) == s.Memory.UsedPc # NaN /\ s.Memory.UsedPc # PosInf

-----------------------------------------------------------------------------
(* Samples *)

Proc(command, vsz, cpu, state) ==
    [command |-> command, vsz |-> vsz, cpu |-> cpu, state |-> state]

Part(usedPct, device) ==
    [usedPct |-> usedPct, critical |-> usedPct > 90, device |-> device]

Sample(user, sys, memUsed, memTotal, load1, procs, temp, fs) ==
    [user |-> user, sys |-> sys, memUsed |-> memUsed, memTotal |-> memTotal,
     load1 |-> load1, procs |-> procs, temp |-> temp, fs |-> fs]

NoFs == [isNil |-> TRUE, parts |-> EmptyMap]
Fs(parts) == [isNil |-> FALSE, parts |-> parts]

\* samples handed to the engine by a caller of its API
EngineSamples ==
    { Sample(10, 0, 50, 100, 0, <<>>, EmptyMap, Fs(EmptyMap)),
      Sample(10, 0, 50, 100, 1,
             <<Proc("sh", 3, 1, "S"), Proc("sh", 8, 1, "R")>>,
             [n \in {"cpu"} |-> 45],
             Fs([m \in {"/"} |-> Part(50, "sda1")])),
      Sample(90, 5, 95, 100, 6,
             <<Proc("sh", 8, 1, "S"), Proc("sh", 3, 5, "D"), Proc("init", 1, 0, "S")>>,
             [n \in {"cpu", "board"} |-> IF n = "cpu" THEN 71 ELSE 70],
             Fs([m \in {"/", "/data"} |-> IF m = "/" THEN Part(95, "sda1") ELSE Part(85, "sdb1")])),
      Sample(0, 0, 0, 0, 0, <<Proc("init", 1, 0, "S")>>, [n \in {"board"} |-> 0], NoFs) }

\* the configurations explored; the thresholds are the defaults of the flags
Configs ==
    [window : 0..MaxWindow, longTermWindow : {MaxLongWindow},
     anomalyThreshold : {AnomalyThreshold}, trendThreshold : {TrendThreshold},
     tempThreshold : {TempThreshold}]

-----------------------------------------------------------------------------
(* The engine alone, driven through its API *)

Idle == [stats |-> 0, snapshot |-> 0]

NoTick == [stats |-> Nil, tempStats |-> EmptyMap, trend |-> Nil, dump |-> "none"]

InitCommon ==
    /\ history = <<>>
    /\ tempHistory = EmptyMap
    /\ longTermTempHistory = EmptyMap
    /\ added = <<>>
    /\ result = Nil
    /\ summary = NewSummary
    /\ files = {}
    /\ active = Idle
    /\ stage = "select"
    /\ stopped = FALSE
    /\ tick = NoTick
    /\ clock = 0
    /\ err = FALSE
    /\ fnOut = Nil

InitEngine ==
    /\ cfg \in Configs
    /\ InitCommon
    /\ fnArg = Nil

\* t.AddStats(stats); the caller drops the Trend it held
EngineAddStats ==
    \E stats \in EngineSamples :
        /\ Len(added) < MaxAdds
        /\ AddStats(stats)
        /\ added' = Append(added, stats)
        /\ result' = Nil
        /\ UNCHANGED <<cfg, files, err, loopVars, fnVars>>

\* trend := t.Analyze()
EngineAnalyze ==
    \E ord \in Orders(tempHistory), lord \in Orders(longTermTempHistory) :
        /\ result' = Analyze(history, tempHistory, longTermTempHistory, cfg, ord, lord)
        /\ UNCHANGED <<cfg, engineVars, added, files, err, loopVars, fnVars>>

SnapshotFile == [dir |-> "snapshots", at |-> 0]

\* err := t.SaveSnapshot(filename)
EngineSaveSnapshot ==
    \E ok \in BOOLEAN :
        /\ SaveSnapshot(SnapshotFile, ok)
        /\ err' = ~ok
        /\ UNCHANGED <<cfg, added, result, loopVars, fnVars>>

NextEngine == EngineAddStats \/ EngineAnalyze \/ EngineSaveSnapshot

SpecEngine == InitEngine /\ [][NextEngine]_vars

-----------------------------------------------------------------------------
(* Properties of the engine, checked under SpecEngine *)

RECURSIVE Readings(_, _)
\* the readings of one sensor in the samples of a sequence, in order
Readings(samples, name) ==
    IF samples = <<>> THEN <<>>
    ELSE (IF name \in DOMAIN Head(samples).temp THEN <<Head(samples).temp[name]>> ELSE <<>>)
         \o Readings(Tail(samples), name)

\* sensors and mount points of the samples added so far
SensorsSeen == UNION {DOMAIN added[i].temp : i \in DOMAIN added}
MountsSeen == FsKeys(added)

\* the Trends Analyze can return in the current state
Trends ==
    {Analyze(history, tempHistory, longTermTempHistory, cfg, ord, lord) :
        ord \in Orders(tempHistory), lord \in Orders(longTermTempHistory)}

SeriesBounded ==
    /\ Len(history) <= cfg.window
    /\ \A n \in DOMAIN tempHistory : Len(tempHistory[n]) <= cfg.window
    /\ \A n \in DOMAIN longTermTempHistory :
          Len(longTermTempHistory[n]) <= cfg.longTermWindow

SeriesNeverShrink ==
    /\ Len(history') >= Len(history)
    /\ \A n \in DOMAIN tempHistory :
          n \in DOMAIN tempHistory' /\ Len(tempHistory'[n]) >= Len(tempHistory[n])
    /\ \A n \in DOMAIN longTermTempHistory :
          /\ n \in DOMAIN longTermTempHistory'
          /\ Len(longTermTempHistory'[n]) >= Len(longTermTempHistory[n])

\* C1: after any sequence of AddStats calls the history and every sensor's short
\* series hold at most window entries and every long series at most
\* longTermWindow entries, and no step makes a series shorter.
C1_SeriesBounded == [](SeriesBounded) /\ [][SeriesNeverShrink]_vars

\* C1 witness: samples have been evicted from the history and from a sensor's
\* short and long series, which stay at capacity.
C1_Witness ==
    /\ cfg.window > 0
    /\ Len(added) > cfg.window
    /\ Len(history) = cfg.window
    /\ \E n \in DOMAIN tempHistory :
          /\ Len(Readings(added, n)) > cfg.window
          /\ Len(tempHistory[n]) = cfg.window
          /\ Len(longTermTempHistory[n]) = cfg.longTermWindow

\* C2: the history is the last min(n, window) samples added, in order, and each
\* sensor's short (long) series is the last min(k, window) (min(k,
\* longTermWindow)) readings of that sensor, in order.
C2_FifoEviction ==
    /\ history = LastN(added, cfg.window)
    /\ DOMAIN tempHistory = SensorsSeen
    /\ DOMAIN longTermTempHistory = SensorsSeen
    /\ \A n \in SensorsSeen :
          /\ tempHistory[n] = LastN(Readings(added, n), cfg.window)
          /\ longTermTempHistory[n] = LastN(Readings(added, n), cfg.longTermWindow)

\* C2 witness: a sensor has had more readings than its short series holds, and
\* the oldest reading differs from the oldest one kept.
C2_Witness ==
    /\ cfg.window > 0
    /\ Len(added) > cfg.window
    /\ added[1] # history[1]
    /\ \E n \in SensorsSeen :
          /\ Len(Readings(added, n)) > cfg.window
          /\ Readings(added, n)[1] # tempHistory[n][1]

\* the mount points carried by two samples or more of the history, when the
\* latest sample has a filesystem map
MountsInWindow ==
    IF Len(history) > 0 /\ ~history[Len(history)].fs.isNil
    THEN {m \in FsKeys(history) :
            Cardinality({i \in DOMAIN history :
                ~history[i].fs.isNil /\ m \in DOMAIN history[i].fs.parts}) >= 2}
    ELSE {}

\* C3 as claimed: every sensor and every mount point ever added keeps a series
\* and is analysed by Analyze.
C3_Original ==
    /\ SensorsSeen \subseteq DOMAIN tempHistory
    /\ \A t \in Trends : t # Nil =>
          /\ SensorsSeen \subseteq DOMAIN t.Temperature.Sensors
          /\ MountsSeen \subseteq DOMAIN t.Filesystem.Partitions

\* C3, amended: every sensor ever added keeps its short and long series and is
\* in every Trend that Analyze returns; a mount point is in the Trend exactly
\* when two samples or more of the current history carry it and the latest
\* sample has a filesystem map.
C3_KeysGrow ==
    /\ SensorsSeen \subseteq DOMAIN tempHistory
    /\ SensorsSeen \subseteq DOMAIN longTermTempHistory
    /\ \A t \in Trends : t # Nil =>
          /\ DOMAIN t.Temperature.Sensors = SensorsSeen
          /\ DOMAIN t.Filesystem.Partitions = MountsInWindow

\* C3 witness: Analyze returns a Trend that holds a sensor no sample of the
\* history carries, and lacks a mount point that was added earlier.
C3_Witness ==
    /\ \E n \in SensorsSeen : \A i \in DOMAIN history : n \notin DOMAIN history[i].temp
    /\ \E t \in Trends :
          /\ t # Nil
          /\ DOMAIN t.Temperature.Sensors = SensorsSeen
          /\ \E m \in MountsSeen : m \notin DOMAIN t.Filesystem.Partitions

\* the lengths of the series whose slope Analyze computes
SlopeLengths ==
    {Len(history)}
    \cup {Len(tempHistory[n]) : n \in DOMAIN tempHistory}
    \cup {Len(longTermTempHistory[n]) : n \in DOMAIN longTermTempHistory}
    \cup {SumOver([n \in DOMAIN tempHistory |-> Len(tempHistory[n])], DOMAIN tempHistory)}
    \cup {SumOver([n \in DOMAIN longTermTempHistory |-> Len(longTermTempHistory[n])],
                  DOMAIN longTermTempHistory)}
    \cup {Len(FsHistory(history, m)) : m \in FsKeys(history)}

\* C4 as claimed: for every configuration Analyze returns nil before the second
\* sample and a Trend from the second sample on.
C4_Original ==
    \A t \in Trends : (t = Nil) <=> (Len(added) < 2)

\* C4, amended: Analyze returns nil while fewer than 2 samples have been added;
\* with a window of 2 or more it returns a Trend from the second sample on
\* (with a smaller window it never does); every slope of a series of 2 or more
\* values is computed with a divisor above zero.
C4_AnalyzeNeedsTwo ==
    /\ \A t \in Trends :
          /\ Len(added) < 2 => t = Nil
          /\ cfg.window >= 2 /\ Len(added) >= 2 => t # Nil
          /\ cfg.window < 2 => t = Nil
    /\ \A n \in SlopeLengths : n >= 2 => TrendDenominator(n) > 0

\* C4 witness: exactly two samples have been added and Analyze returns a Trend.
C4_Witness ==
    /\ Len(added) = 2
    /\ result # Nil
    /\ result \in Trends

\* C9: a step that adds no sample - a SaveSnapshot, failed or not, among them -
\* leaves the history, the process lists of its samples and every sensor's
\* short and long series as they were.
C9_SnapshotReadOnly ==
    [][added' = added =>
         /\ history' = history
         /\ tempHistory' = tempHistory
         /\ longTermTempHistory' = longTermTempHistory]_vars

\* C9 witness: a snapshot has been written while the history holds a sample
\* whose process list has two entries of one command, and another call failed.
C9_Witness ==
    /\ SnapshotFile \in files
    /\ err
    /\ \E i \in DOMAIN history :
          Cardinality(DOMAIN Deduplicate(history[i].procs)) < Len(history[i].procs)

-----------------------------------------------------------------------------
(* The monitoring loop of main.go *)

\* what the acquisition of a tick can hand over: ParseTopOutput's result with
\* the filesystem map main fills in; main never sets stats.Temperature
QuietSample ==
    Sample(10, 0, 50, 100, 0, <<Proc("init", 1, 0, "S")>>, EmptyMap,
           Fs([m \in {"/"} |-> Part(50, "sda1")]))

MainSamples ==
    { QuietSample,
      Sample(90, 5, 95, 100, 11, <<Proc("init", 1, 0, "S"), Proc("worker", 9, 60, "D")>>,
             EmptyMap,
             Fs([m \in {"/", "/boot", "/data", "/var"} |-> Part(85, "sda")])),
      Sample(10, 0, 50, 100, 0, <<Proc("init", 1, 0, "S")>>, EmptyMap,
             Fs([m \in {"/"} |-> Part(95, "sda1")])),
      Sample(0, 0, 0, 0, 0, <<>>, EmptyMap, Fs(EmptyMap)) }

\* what ReadTemperatureStats can hand over (an empty map when it fails)
TempReadings == {EmptyMap, [n \in {"cpu"} |-> 71]}

\* what one tick can read; the sensors vary on the quiet sample only
Acquisitions ==
    {a \in [stats : MainSamples, tempStats : TempReadings] :
        a.tempStats = EmptyMap \/ a.stats = QuietSample}

\* the flags main passes to NewWithFullOptions
MainConfigs == {c \in Configs : c.window \in {2, MaxWindow} /\ c.longTermWindow = MaxLongWindow}

CrashFile(at) == [dir |-> "crashes", at |-> at]
SummaryFile == [dir |-> "summary", at |-> 0]

\* NeedsCrashDump with the stress level excluded
NeedsCrashDumpStrict(trend) ==
    \/ trend.SystemStress > StressDumpLevel
    \/ trend.CPUUsage.Anomaly
    \/ trend.ProcessCount.Anomaly
    \/ trend.Temperature.Anomaly
    \/ trend.MemoryUsage.Anomaly
    \/ trend.Temperature.ThresholdExceeded
    \/ trend.Filesystem.Critical
    \/ trend.Filesystem.Anomaly

\* the condition under which main calls saveCrashDump
NeedsCrashDump(trend) ==
    \/ trend.SystemStress >= StressDumpLevel
    \/ trend.CPUUsage.Anomaly
    \/ trend.ProcessCount.Anomaly
    \/ trend.Temperature.Anomaly
    \/ trend.MemoryUsage.Anomaly
    \/ trend.Temperature.ThresholdExceeded
    \/ trend.Filesystem.Critical
    \/ trend.Filesystem.Anomaly

\* saveCrashDump that returns the file name whatever happened
saveCrashDumpBlind(filename, ok) == filename

\* what saveCrashDump returns: the file name, or "" when MkdirAll, SaveSnapshot
\* or Stat failed
saveCrashDump(filename, ok) == IF ok THEN filename ELSE NoFile

\* a select that takes a case whatever the goroutine is doing
SelectAnywhere == TRUE

\* the goroutine is at the select of the loop
AtSelect == stage = "select" /\ ~stopped

Init ==
    /\ cfg \in MainConfigs
    /\ InitCommon
    /\ fnArg = Nil

\* case <-statsTicker.C, when top or ParseTopOutput fails: continue
StatsTickFailed ==
    /\ AtSelect
    /\ clock < MaxTicks
    /\ clock' = clock + 1
    /\ UNCHANGED <<cfg, engineVars, added, result, summary, files, active, stage,
                   stopped, tick, err, fnVars>>

\* case <-statsTicker.C: the sample, the temperatures and the filesystems are read
StatsTickAcquire ==
    /\ AtSelect
    /\ clock < MaxTicks
    /\ \E a \in Acquisitions :
          tick' = [stats |-> a.stats, tempStats |-> a.tempStats, trend |-> Nil, dump |-> "none"]
    /\ clock' = clock + 1
    /\ stage' = "acquired"
    /\ active' = [active EXCEPT !.stats = @ + 1]
    /\ UNCHANGED <<cfg, engineVars, added, result, summary, files, stopped, err, fnVars>>

\* analyzer.AddStats(stats); s.Update(stats, nil, tempStats, ""); trend :=
\* analyzer.Analyze(); the test of the crash dump conditions
UpdateAndAnalyze ==
    /\ stage = "acquired"
    /\ AddStats(tick.stats)
    /\ summary' = Update(summary, tick.stats, tick.tempStats, NoFile, clock)
    /\ \E ord \in Orders(tempHistory'), lord \in Orders(longTermTempHistory') :
          \E trend \in {Analyze(history', tempHistory', longTermTempHistory', cfg, ord, lord)} :
             /\ tick' = [tick EXCEPT !.trend = trend]
             /\ stage' = IF trend # Nil /\ NeedsCrashDump(trend) THEN "dump" ELSE "log"
    /\ UNCHANGED <<cfg, added, result, files, active, stopped, clock, err, fnVars>>

\* crashFile := saveCrashDump(analyzer, log), and the second Update when it is
\* not ""
CrashDump ==
    /\ stage = "dump"
    /\ \E ok \in BOOLEAN :
          \E crashFile \in {saveCrashDump(CrashFile(clock), ok)} :
             /\ SaveSnapshot(CrashFile(clock), ok)
             /\ err' = ~ok
             /\ summary' = IF crashFile # NoFile
                           THEN Update(summary, tick.stats, tick.tempStats, crashFile, clock)
                           ELSE summary
             /\ tick' = [tick EXCEPT !.dump = IF crashFile # NoFile THEN "saved" ELSE "failed"]
    /\ stage' = "log"
    /\ UNCHANGED <<cfg, added, result, active, stopped, clock, fnVars>>

\* the stats are logged and, when a minute has gone by, the summary is saved;
\* the handler is over
LogAndSave ==
    /\ stage = "log"
    /\ \E due \in BOOLEAN, ok \in BOOLEAN :
          files' = IF due /\ ok /\ Serialisable(summary)
                   THEN files \cup {SummaryFile} ELSE files
    /\ stage' = "select"
    /\ active' = [active EXCEPT !.stats = @ - 1]
    /\ UNCHANGED <<cfg, engineVars, added, result, summary, stopped, tick, clock, err, fnVars>>

\* case <-snapshotTicker.C
SnapshotTick ==
    /\ AtSelect
    /\ stage' = "snapshot"
    /\ active' = [active EXCEPT !.snapshot = @ + 1]
    /\ UNCHANGED <<cfg, engineVars, added, result, summary, files, stopped, tick, clock,
                   err, fnVars>>

\* analyzer.SaveSnapshot(filename) of the periodic snapshot; the handler is over
SnapshotWrite ==
    /\ stage = "snapshot"
    /\ \E ok \in BOOLEAN :
          /\ SaveSnapshot(SnapshotFile, ok)
          /\ err' = ~ok
    /\ stage' = "select"
    /\ active' = [active EXCEPT !.snapshot = @ - 1]
    /\ UNCHANGED <<cfg, added, result, summary, stopped, tick, clock, fnVars>>

\* case sig := <-sigChan: return
Shutdown ==
    /\ AtSelect
    /\ stopped' = TRUE
    /\ UNCHANGED <<cfg, engineVars, added, result, summary, files, active, stage,
                   tick, clock, err, fnVars>>

Next ==
    \/ StatsTickFailed
    \/ StatsTickAcquire
    \/ UpdateAndAnalyze
    \/ CrashDump
    \/ LogAndSave
    \/ SnapshotTick
    \/ SnapshotWrite
    \/ Shutdown

Spec == Init /\ [][Next]_vars

-----------------------------------------------------------------------------
(* Properties of the monitoring loop, checked under Spec *)

\* the crash dump conditions, flag by flag
AnyFlag(trend) ==
    \/ trend.CPUUsage.Anomaly
    \/ trend.MemoryUsage.Anomaly
    \/ trend.ProcessCount.Anomaly
    \/ trend.Temperature.Anomaly
    \/ trend.Filesystem.Anomaly
    \/ trend.Temperature.ThresholdExceeded
    \/ trend.Filesystem.Critical

\* the tick's Analyze and its crash dump decision are over
Decided == tick.stats # Nil /\ stage \in {"log", "select", "snapshot"}

\* C6: in a tick whose Analyze returned a Trend a crash dump is attempted if
\* and only if SystemStress >= 85 or one of the Anomaly flags,
\* Temperature.ThresholdExceeded or Filesystem.Critical is set; in a tick whose
\* Analyze returned nil none is attempted.
C6_CrashDumpCondition ==
    /\ stage = "dump" =>
          tick.trend # Nil /\ tick.dump = "none"
          /\ (tick.trend.SystemStress >= 85 \/ AnyFlag(tick.trend))
    /\ Decided =>
          /\ tick.trend \in Trends
          /\ tick.trend = Nil => tick.dump = "none"
          /\ tick.trend # Nil =>
                (tick.dump # "none" <=> (tick.trend.SystemStress >= 85 \/ AnyFlag(tick.trend)))

\* C6 witness: a crash dump has been attempted in a tick whose Trend has a
\* SystemStress of exactly 85 and no flag set.
C6_Witness ==
    /\ Decided
    /\ tick.trend # Nil
    /\ tick.trend.SystemStress = 85
    /\ ~AnyFlag(tick.trend)
    /\ tick.dump # "none"

\* a step in which a SaveSnapshot of the loop fails
FailedWrite == stage \in {"dump", "snapshot"} /\ stage' # stage /\ err'

\* C7: a crash dump or periodic snapshot whose write fails gives an error
\* value, leaves lastCrashFile and lastCrashTime as they were and the loop
\* running; the loop stops only on the signal, taken at the select; and
\* lastCrashFile is only ever the path of a crash dump that was written.
C7_FailedWriteGoesOn ==
    /\ [](summary.LastCrashFile # NoFile =>
            summary.LastCrashFile \in files /\ summary.LastCrashFile.dir = "crashes")
    /\ [][FailedWrite =>
            /\ summary'.LastCrashFile = summary.LastCrashFile
            /\ summary'.LastCrashTime = summary.LastCrashTime
            /\ files' = files
            /\ ~stopped'
            /\ stage' \in {"log", "select"}]_vars
    /\ [][stopped' /\ ~stopped => stage = "select" /\ active = Idle]_vars

\* C7 witness: the crash dump of this tick failed, an earlier one had been
\* written, and the loop is back at its select.
C7_Witness ==
    /\ AtSelect
    /\ tick.dump = "failed"
    /\ err
    /\ summary.LastCrashFile # NoFile
    /\ summary.LastCrashFile.at < clock

\* C8: at most one handler of the loop is running; the history changes only
\* in the stats handler's AddStats, while no snapshot handler is running, and a
\* crash dump runs only after the Analyze of its tick.
C8_SingleTimeline ==
    /\ [](/\ active.stats + active.snapshot <= 1
          /\ active.stats = 1 <=> stage \in {"acquired", "dump", "log"}
          /\ active.snapshot = 1 <=> stage = "snapshot"
          /\ stage = "dump" => tick.trend \in Trends \ {Nil})
    /\ [][history' # history => stage = "acquired" /\ active.snapshot = 0]_vars
    /\ [][files' # files => stage \in {"dump", "log", "snapshot"}]_vars

\* C8 witness: a periodic snapshot is being handled after a tick that wrote a
\* crash dump.
C8_Witness ==
    /\ stage = "snapshot"
    /\ active = [stats |-> 0, snapshot |-> 1]
    /\ tick.dump = "saved"
    /\ Len(history) >= 2

-----------------------------------------------------------------------------
(* The two stress formulas as functions of their input *)

Levels(lo, hi) == {lo * Scale, hi * Scale}

\* the partitions of a Trend: each mount point absent, critical or at ease
TrendPartitions ==
    UNION {[ms -> {[Critical |-> TRUE, Current |-> 5 * Scale, Trend |-> -2 * Scale],
                   [Critical |-> FALSE, Current |-> 15 * Scale, Trend |-> 0]}] :
           ms \in SUBSET {"/", "/data"}}

\* the fields of a Trend that calculateSystemStress of trend.go reads
TrendInputs ==
    [CPUUsage : [Mean : Levels(0, 25), Anomaly : BOOLEAN],
     MemoryUsage : [Mean : Levels(0, 95)],
     ProcessCount : [Mean : Levels(0, 120), Anomaly : BOOLEAN],
     Temperature : [ThresholdExceeded : BOOLEAN, Max : Levels(0, 65), Anomaly : BOOLEAN],
     Filesystem : [Critical : BOOLEAN, Anomaly : BOOLEAN, Partitions : TrendPartitions]]

SummaryPartitions ==
    UNION {[ms -> {[FreeSpace |-> 5], [FreeSpace |-> 50]}] : ms \in SUBSET {"/", "/data"}}

\* the fields of a summary that calculateSystemStress of summary.go reads
SummaryInputs ==
    [CPU : [User : {0, 95}, System : {0}, Load1 : {0, 11}],
     Memory : [UsedPc : {0, 95 * Scale, NaN, PosInf}],
     Temperature : [MaxTemp : {-100, 0, 75}],
     Processes : [Uninterr : {0, 6}, HighCPU : {0, 11}],
     Filesystem : [Partitions : SummaryPartitions]]

\* the partitions of a Trend tier by tier: each mount point absent, critical
\* and falling fast, low and falling, or at ease
TierPartitions ==
    UNION {[ms -> {[Critical |-> TRUE, Current |-> 5 * Scale, Trend |-> -2 * Scale],
                   [Critical |-> FALSE, Current |-> 15 * Scale, Trend |-> -(3 * Scale) \div 4],
                   [Critical |-> FALSE, Current |-> 50 * Scale, Trend |-> 0]}] :
           ms \in SUBSET {"/", "/boot", "/data"}}

\* Trends whose means take a value of every tier, with no anomaly and no sensor
TierInputs ==
    [CPUUsage : [Mean : {0, 15 * Scale, 25 * Scale}, Anomaly : {FALSE}],
     MemoryUsage : [Mean : {0, 75 * Scale, 85 * Scale, 95 * Scale}],
     ProcessCount : [Mean : {0, 60 * Scale, 120 * Scale}, Anomaly : {FALSE}],
     Temperature : [ThresholdExceeded : {FALSE}, Max : {0}, Anomaly : {FALSE}],
     Filesystem : [Critical : BOOLEAN, Anomaly : BOOLEAN, Partitions : TierPartitions]]

\* Trends whose overall temperature takes a value of every tier
TemperatureInputs ==
    [CPUUsage : [Mean : {0}, Anomaly : {FALSE}],
     MemoryUsage : [Mean : {0, 95 * Scale}],
     ProcessCount : [Mean : {0}, Anomaly : {FALSE}],
     Temperature : [ThresholdExceeded : BOOLEAN,
                    Max : {-25 * Scale, -15 * Scale, 0, 55 * Scale, 65 * Scale, 75 * Scale},
                    Anomaly : BOOLEAN],
     Filesystem : [Critical : {FALSE}, Anomaly : {FALSE}, Partitions : {EmptyMap}]]

\* summaries of zeros whose partitions take a free percentage of every tier
SummaryTierInputs ==
    [CPU : [User : {0}, System : {0}, Load1 : {0}],
     Memory : [UsedPc : {0}],
     Temperature : [MaxTemp : {0}],
     Processes : [Uninterr : {0}, HighCPU : {0}],
     Filesystem : [Partitions :
        UNION {[ms -> [FreeSpace : {5, 10, 15, 20, 50}]] : ms \in SUBSET {"/", "/boot", "/data"}}]]

InitStress ==
    /\ cfg \in {c \in Configs : c.window = MaxWindow /\ c.longTermWindow = MaxLongWindow}
    /\ InitCommon
    /\ \/ fnArg \in [kind : {"trend"}, v : TrendInputs]
       \/ fnArg \in [kind : {"trend"}, v : TierInputs]
       \/ fnArg \in [kind : {"trend"}, v : TemperatureInputs]
       \/ fnArg \in [kind : {"summary"}, v : SummaryInputs]
       \/ fnArg \in [kind : {"summary"}, v : SummaryTierInputs]

\* calculateSystemStress(trend) of trend.go
ApplyTrendStress ==
    /\ fnArg.kind = "trend"
    /\ fnOut = Nil
    /\ fnOut' = [risk |-> TrendRisk(fnArg.v), stress |-> calculateSystemStress(fnArg.v)]
    /\ UNCHANGED <<cfg, engineVars, added, result, files, err, loopVars, fnArg>>

\* s.calculateSystemStress() of summary.go
ApplySummaryStress ==
    /\ fnArg.kind = "summary"
    /\ fnOut = Nil
    /\ fnOut' = [risk |-> SummaryRisk(fnArg.v), stress |-> SummaryStress(fnArg.v)]
    /\ UNCHANGED <<cfg, engineVars, added, result, files, err, loopVars, fnArg>>

NextStress == ApplyTrendStress \/ ApplySummaryStress

SpecStress == InitStress /\ [][NextStress]_vars

\* a Trend with no flag, zero means, no sensor and no partition
ZeroTrend ==
    [CPUUsage |-> [Mean |-> 0, Anomaly |-> FALSE],
     MemoryUsage |-> [Mean |-> 0],
     ProcessCount |-> [Mean |-> 0, Anomaly |-> FALSE],
     Temperature |-> [ThresholdExceeded |-> FALSE, Max |-> 0, Anomaly |-> FALSE],
     Filesystem |-> [Critical |-> FALSE, Anomaly |-> FALSE, Partitions |-> EmptyMap]]

\* a summary of zeros with no sensor and no partition
ZeroSummary ==
    [CPU |-> [User |-> 0, System |-> 0, Load1 |-> 0],
     Memory |-> [UsedPc |-> 0],
     Temperature |-> [MaxTemp |-> 0],
     Processes |-> [Uninterr |-> 0, HighCPU |-> 0],
     Filesystem |-> [Partitions |-> EmptyMap]]

\* C5: both stress formulas give a score within 0..100 on every input: 0 on
\* the all-zero input with no sensors and no partitions, and exactly 100
\* whenever the accumulated risk is 100 or more.
C5_StressInRange ==
    fnOut # Nil =>
        /\ fnOut.stress >= 0
        /\ fnOut.stress <= 100
        /\ fnOut.risk >= 100 => fnOut.stress = 100
        /\ fnOut.risk < 100 => fnOut.stress = fnOut.risk
        /\ fnArg.v \in {ZeroTrend, ZeroSummary} => fnOut.stress = 0

\* C5 witness: a score has been computed from a risk above 100.
C5_Witness ==
    /\ fnOut # Nil
    /\ fnOut.risk > 100
    /\ fnOut.stress = 100

-----------------------------------------------------------------------------
(* The deduplication of SaveSnapshot as a function of a process list *)

ProcEntries == {Proc(command, vsz, cpu, "S") : command \in {"sh", "init"}, vsz \in {3, 8}, cpu \in {1, 5}}

ProcLists == UNION {[1..n -> ProcEntries] : n \in 0..MaxProcs}

InitDedup ==
    /\ cfg \in {c \in Configs : c.window = MaxWindow /\ c.longTermWindow = MaxLongWindow}
    /\ InitCommon
    /\ fnArg \in ProcLists

\* the processMap loop of SaveSnapshot on one process list
ApplyDeduplicate ==
    /\ fnOut = Nil
    /\ fnOut' = Deduplicate(fnArg)
    /\ UNCHANGED <<cfg, engineVars, added, result, files, err, loopVars, fnArg>>

NextDedup == ApplyDeduplicate

SpecDedup == InitDedup /\ [][NextDedup]_vars

\* the entries of the list that carry a command
EntriesOf(command) == {i \in DOMAIN fnArg : fnArg[i].command = command}

OnePerCommand ==
    /\ DOMAIN fnOut = {fnArg[i].command : i \in DOMAIN fnArg}
    /\ \A command \in DOMAIN fnOut :
          \E i \in EntriesOf(command) : fnOut[command] = fnArg[i]

\* C10 as claimed: one entry per command is kept, and of two entries of a
\* command the one with the larger vszPercent is kept, whatever the order.
C10_Original ==
    fnOut # Nil =>
        /\ OnePerCommand
        /\ \A command \in DOMAIN fnOut : \A i \in EntriesOf(command) :
              fnOut[command].vsz >= fnArg[i].vsz

\* C10, amended: one entry per command is kept, and it is an entry of the
\* list; an entry whose vszPercent is larger than that of every other entry
\* of its command, and whose cpuPercent is not below any of theirs, is the one
\* kept, whatever the order.
C10_DedupKeepsDominant ==
    fnOut # Nil =>
        /\ OnePerCommand
        /\ \A command \in DOMAIN fnOut : \A i \in EntriesOf(command) :
              (\A j \in EntriesOf(command) \ {i} :
                  fnArg[i].vsz > fnArg[j].vsz /\ fnArg[i].cpu >= fnArg[j].cpu)
              => fnOut[command] = fnArg[i]

\* C10 witness: of two entries of a command the first has the larger
\* vszPercent and the same cpuPercent, and it is the one kept.
C10_Witness ==
    /\ fnOut # Nil
    /\ Len(fnArg) >= 2
    /\ fnArg[1].command = fnArg[2].command
    /\ fnArg[1].vsz > fnArg[2].vsz
    /\ fnArg[1].cpu = fnArg[2].cpu
    /\ Cardinality(EntriesOf(fnArg[1].command)) = 2
    /\ fnOut[fnArg[1].command] = fnArg[1]

\* the list visited in the order ord of its indices
Permuted(list, ord) == [i \in DOMAIN list |-> list[ord[i]]]

\* no two entries of a command have the same vszPercent and the same cpuPercent
NoExactTies(list) ==
    \A i, j \in DOMAIN list :
        (i # j /\ list[i].command = list[j].command)
        => (list[i].vsz # list[j].vsz \/ list[i].cpu # list[j].cpu)

\* C11: the entry kept for a command is the same for every order in which the
\* entries of a list without exact ties are visited.
C11_OrderIndependent ==
    (fnOut # Nil /\ NoExactTies(fnArg)) =>
        \A ord \in SetToSeqs(DOMAIN fnArg) : Deduplicate(Permuted(fnArg, ord)) = fnOut

-----------------------------------------------------------------------------
(* Properties of Analyze, checked under SpecEngine *)

\* C12: in every Trend a sensor's ThresholdExceeded is true exactly when a
\* reading of its short series is above tempThreshold (a maximum equal to it
\* gives false), and the overall flag is true exactly when some sensor's is.
C12_ThresholdExceeded ==
    \A t \in Trends \ {Nil} :
        /\ \A n \in DOMAIN t.Temperature.Sensors :
              t.Temperature.Sensors[n].ThresholdExceeded
              <=> \E i \in DOMAIN tempHistory[n] : tempHistory[n][i] * Scale > cfg.tempThreshold
        /\ t.Temperature.ThresholdExceeded
              <=> \E n \in DOMAIN t.Temperature.Sensors :
                     t.Temperature.Sensors[n].ThresholdExceeded

\* C12 witness: Analyze returned a Trend in which one sensor's maximum is the
\* threshold itself and is not flagged, and another sensor is flagged.
C12_Witness ==
    /\ result # Nil
    /\ result \in Trends
    /\ \E n \in DOMAIN result.Temperature.Sensors :
          /\ result.Temperature.Sensors[n].Max = cfg.tempThreshold
          /\ ~result.Temperature.Sensors[n].ThresholdExceeded
    /\ \E n \in DOMAIN result.Temperature.Sensors :
          result.Temperature.Sensors[n].ThresholdExceeded
    /\ result.Temperature.ThresholdExceeded

\* the partitions of the latest sample of the history
LatestPartitions ==
    IF history = <<>> \/ history[Len(history)].fs.isNil THEN {}
    ELSE DOMAIN history[Len(history)].fs.parts

\* the latest sample has less than 10 percent free on the partition
LatestBelowTen(m) == 100 - history[Len(history)].fs.parts[m].usedPct < 10

\* C13: in every Trend each partition of the latest sample is marked critical
\* exactly when its current free percentage (100 - usedPct) is below 10, and
\* the overall Filesystem.Critical flag is true exactly when at least one
\* partition of the latest sample is critical.
C13_PartitionCritical ==
    \A t \in Trends \ {Nil} :
        /\ \A m \in LatestPartitions :
              /\ m \in DOMAIN t.Filesystem.Partitions
              /\ t.Filesystem.Partitions[m].Critical <=> LatestBelowTen(m)
        /\ t.Filesystem.Critical <=> \E m \in LatestPartitions : LatestBelowTen(m)

-----------------------------------------------------------------------------
(* Empty temperature and filesystem domains, checked under Spec *)

\* no Update of the summary has carried a sensor or a partition so far; the
\* engine has been given the same samples
NothingObserved ==
    /\ summary.Temperature.History = EmptyMap
    /\ summary.Filesystem.History = EmptyMap
    /\ tempHistory = EmptyMap
    /\ FsKeys(history) = {}

\* the stress of a Trend from its CPU, memory and process factors alone
TrendStressOfRest(trend) ==
    calculateSystemStress(
        [trend EXCEPT !.Temperature.ThresholdExceeded = FALSE, !.Temperature.Anomaly = FALSE,
                      !.Temperature.Max = 0,
                      !.Filesystem = [Partitions |-> EmptyMap, Anomaly |-> FALSE,
                                      Critical |-> FALSE]])

\* the stress of a summary from its CPU, memory, load and process factors alone
SummaryStressOfRest(s) ==
    SummaryStress([s EXCEPT !.Temperature.MaxTemp = 0, !.Filesystem.Partitions = EmptyMap])

\* C14: once Update and Analyze have run on samples none of which carried a
\* sensor or a partition, the temperature and filesystem blocks of the Trend
\* and of the summary are empty, and the stress of each equals what its
\* remaining factors alone give.
C14_EmptyDomains ==
    (stage \in {"dump", "log"} /\ NothingObserved) =>
        /\ summary.Temperature.Sensors = EmptyMap
        /\ summary.Filesystem.Partitions = EmptyMap
        /\ summary.SystemStress = SummaryStressOfRest(summary)
        /\ tick.trend # Nil =>
              /\ tick.trend.Temperature.Sensors = EmptyMap
              /\ tick.trend.Filesystem.Partitions = EmptyMap
              /\ tick.trend.SystemStress = TrendStressOfRest(tick.trend)

-----------------------------------------------------------------------------
(* The CPU jump scenario: an engine of window ScenarioWindow is given
   ScenarioSteady samples of 10 percent busy CPU and then one of 95 percent,
   every other metric staying as it was in the first sample. *)

ScenarioConfig ==
    [window |-> ScenarioWindow, longTermWindow |-> MaxLongWindow,
     anomalyThreshold |-> AnomalyThreshold, trendThreshold |-> TrendThreshold,
     tempThreshold |-> TempThreshold]

\* the metrics that stay constant over the scenario
ScenarioRest ==
    [sys : {0, 3}, memUsed : {50, 95}, procs : {<<>>, <<Proc("init", 1, 0, "S")>>},
     temp : {EmptyMap, [n \in {"cpu"} |-> 45]},
     fs : {NoFs, Fs([m \in {"/"} |-> Part(50, "sda1")])}]

\* the sample number k of the scenario
ScenarioSample(rest, k) ==
    Sample((IF k <= ScenarioSteady THEN 10 ELSE 95) - rest.sys, rest.sys,
           rest.memUsed, 100, 0, rest.procs, rest.temp, rest.fs)

InitScenario ==
    /\ cfg = ScenarioConfig
    /\ InitCommon
    /\ fnArg \in ScenarioRest

\* t.AddStats of the next sample of the scenario
ScenarioAddStats ==
    /\ Len(added) < ScenarioSteady + 1
    /\ \E stats \in {ScenarioSample(fnArg, Len(added) + 1)} :
          /\ AddStats(stats)
          /\ added' = Append(added, stats)
    /\ result' = Nil
    /\ UNCHANGED <<cfg, files, err, loopVars, fnVars>>

NextScenario == ScenarioAddStats \/ EngineAnalyze

SpecScenario == InitScenario /\ [][NextScenario]_vars

\* Analyze has been called after the last sample of the scenario
AfterJump == Len(added) = ScenarioSteady + 1 /\ result # Nil

\* C15: the Trend Analyze returns after the sample of 95 percent busy CPU has
\* CPUUsage.Anomaly set and a SystemStress of 20 or more.
C15_CpuJump == AfterJump => (result.CPUUsage.Anomaly /\ result.SystemStress >= 20)

\* C15 witness: Analyze was called after the jump; the window holds the jump
\* and ScenarioWindow - 1 steady samples, and the anomaly is reported.
C15_Witness ==
    /\ AfterJump
    /\ Len(history) = ScenarioWindow
    /\ cpuUsages(history)[ScenarioWindow] = 95 * Scale
    /\ cpuUsages(history)[1] = 10 * Scale
    /\ result.CPUUsage.Anomaly
    /\ result.SystemStress >= 20

-----------------------------------------------------------------------------
(* The running summary taken alone: a sequence of Update calls *)

\* what one Update is given: the sample and the temperature readings
SummaryInput(tempStats, fs) ==
    [stats |-> Sample(10, 0, 50, 100, 0, <<>>, EmptyMap, fs), tempStats |-> tempStats]

UpdateInputs ==
    { SummaryInput([n \in {"cpu"} |-> 40], Fs([m \in {"/"} |-> Part(50, "sda1")])),
      SummaryInput([n \in {"cpu", "board"} |-> IF n = "cpu" THEN 41 ELSE 30],
                   Fs([m \in {"/", "/data"} |-> IF m = "/" THEN Part(60, "sda1")
                                                 ELSE Part(85, "sdb1")])) }

\* the readings of a host whose sensors and filesystems are not up yet
LateInput == SummaryInput(EmptyMap, NoFs)

InitSummary ==
    /\ cfg \in {c \in MainConfigs : c.window = MaxWindow}
    /\ InitCommon
    /\ fnArg = Nil

\* s.Update(stats, nil, tempStats, "")
SummaryUpdate ==
    /\ Len(added) < MaxUpdates
    /\ \E in \in UpdateInputs \cup (IF Len(added) < 2 THEN {LateInput} ELSE {}) :
          /\ summary' = Update(summary, in.stats, in.tempStats, NoFile, Len(added) + 1)
          /\ added' = Append(added, in)
    /\ UNCHANGED <<cfg, engineVars, result, files, active, stage, stopped, tick, clock,
                   err, fnVars>>

NextSummary == SummaryUpdate

SpecSummary == InitSummary /\ [][NextSummary]_vars

RECURSIVE SensorArrivals(_, _)
\* the readings of one sensor in the Update calls so far, oldest first
SensorArrivals(ins, n) ==
    IF ins = <<>> THEN <<>>
    ELSE (IF n \in DOMAIN Head(ins).tempStats THEN <<Head(ins).tempStats[n]>> ELSE <<>>)
         \o SensorArrivals(Tail(ins), n)

RECURSIVE FreeSpaceArrivals(_, _)
\* the free-space percentages of one partition in the Update calls so far
FreeSpaceArrivals(ins, m) ==
    IF ins = <<>> THEN <<>>
    ELSE (IF ~Head(ins).stats.fs.isNil /\ m \in DOMAIN Head(ins).stats.fs.parts
          THEN <<100 - Head(ins).stats.fs.parts[m].usedPct>> ELSE <<>>)
         \o FreeSpaceArrivals(Tail(ins), m)

\* C16: every per-sensor temperature history and every per-partition
\* free-space history of the summary has at most SummaryHistoryLen entries,
\* and they are the most recent readings of its key in arrival order.
C16_SummaryHistories ==
    /\ \A n \in DOMAIN summary.Temperature.History :
          /\ Len(summary.Temperature.History[n]) <= SummaryHistoryLen
          /\ summary.Temperature.History[n] = LastN(SensorArrivals(added, n), SummaryHistoryLen)
    /\ \A m \in DOMAIN summary.Filesystem.History :
          /\ Len(summary.Filesystem.History[m]) <= SummaryHistoryLen
          /\ summary.Filesystem.History[m] = LastN(FreeSpaceArrivals(added, m), SummaryHistoryLen)

\* C16 witness: a sensor and a partition have had more readings than the
\* histories hold, and another sensor fewer.
C16_Witness ==
    /\ "cpu" \in DOMAIN summary.Temperature.History
    /\ Len(SensorArrivals(added, "cpu")) > SummaryHistoryLen
    /\ Len(summary.Temperature.History["cpu"]) = SummaryHistoryLen
    /\ summary.Temperature.History["cpu"][1] # SensorArrivals(added, "cpu")[1]
    /\ "/" \in DOMAIN summary.Filesystem.History
    /\ Len(FreeSpaceArrivals(added, "/")) > SummaryHistoryLen
    /\ Len(summary.Filesystem.History["/"]) = SummaryHistoryLen
    /\ "board" \in DOMAIN summary.Temperature.History
    /\ Len(summary.Temperature.History["board"]) < SummaryHistoryLen

-----------------------------------------------------------------------------
(* The statistics of trend.go as functions of one series *)

\* the series of length n over the values vs
SeqsOfLen(vs, n) == [1..n -> vs]

\* series of up to MaxLen arbitrary values
ArbitrarySeries == UNION {SeqsOfLen({0, 50, 95}, n) : n \in 0..MaxLen}

\* series that go up or down by the same step, of up to MaxLen + 1 values
ArithmeticSeries ==
    {[i \in 1..n |-> a + (i - 1) * d] : a \in {0, 50}, d \in {-2, 0, 1, 3}, n \in 0..(MaxLen + 1)}

\* a series with the thresholds of the flags -anomaly-threshold and -trend-threshold
StatsInputs ==
    [values : {Fx(v) : v \in ArbitrarySeries \cup ArithmeticSeries},
     anomalyThreshold : {Scale \div 2, AnomalyThreshold},
     trendThreshold : {TrendThreshold, Scale}]

InitStats ==
    /\ cfg \in {c \in Configs : c.window = MaxWindow /\ c.longTermWindow = MaxLongWindow}
    /\ InitCommon
    /\ fnArg \in StatsInputs

\* mean, deviation, slope and flag of a scalar metric, as Analyze computes them
\* over a history of two samples or more
ApplyMetricTrend ==
    /\ fnOut = Nil
    /\ Len(fnArg.values) >= 2
    /\ fnOut' = [kind |-> "metric", v |-> MetricTrend(fnArg.values, fnArg)]
    /\ UNCHANGED <<cfg, engineVars, added, result, files, err, loopVars, fnArg>>

\* mean, stdDev := calculateStats(values), then detectAnomalyWithThreshold
ApplyCalculateStats ==
    /\ fnOut = Nil
    /\ \E st \in {calculateStats(fnArg.values)} :
          fnOut' = [kind |-> "stats", v |-> st,
                    anomaly |-> detectAnomalyWithThreshold(fnArg.values, st.mean, st.stdDev,
                                                           fnArg.anomalyThreshold)]
    /\ UNCHANGED <<cfg, engineVars, added, result, files, err, loopVars, fnArg>>

\* calculateTrend(values)
ApplyCalculateTrend ==
    /\ fnOut = Nil
    /\ fnOut' = [kind |-> "trend", v |-> calculateTrend(fnArg.values)]
    /\ UNCHANGED <<cfg, engineVars, added, result, files, err, loopVars, fnArg>>

NextStats == ApplyMetricTrend \/ ApplyCalculateStats \/ ApplyCalculateTrend

SpecStats == InitStats /\ [][NextStats]_vars

\* the z-score test on the reported mean and deviation
ZScoreFires(values, m, threshold) ==
    /\ m.StdDev # 0
    /\ TDiv(Abs(values[Len(values)] - m.Mean) * Scale, m.StdDev) > threshold

\* the slope test on the reported slope
SlopeFires(m, threshold) == Abs(m.Trend) > threshold

\* C17: the Anomaly flag of a scalar metric is set exactly when the z-score
\* test fires (stdDev not 0 and |last - mean| / stdDev above anomalyThreshold)
\* or the slope test fires (|slope| above trendThreshold, strictly); with a
\* stdDev of 0 only the slope test can set it.
C17_AnomalyFlag ==
    (fnOut # Nil /\ fnOut.kind = "metric") =>
        /\ fnOut.v.Anomaly <=> \/ ZScoreFires(fnArg.values, fnOut.v, fnArg.anomalyThreshold)
                               \/ SlopeFires(fnOut.v, fnArg.trendThreshold)
        /\ (fnOut.v.StdDev = 0 /\ fnOut.v.Anomaly) => SlopeFires(fnOut.v, fnArg.trendThreshold)

\* C17 witness: a flag set by the z-score test alone, with the last value
\* below the mean and a slope of 0.
C17_Witness ==
    /\ fnOut # Nil
    /\ fnOut.kind = "metric"
    /\ fnOut.v.Anomaly
    /\ fnOut.v.Trend = 0
    /\ fnArg.values[Len(fnArg.values)] < fnOut.v.Mean

\* C17 witness of the strict slope test: a slope equal to trendThreshold and
\* a flag that is not set.
C17_WitnessSlope ==
    /\ fnOut # Nil
    /\ fnOut.kind = "metric"
    /\ fnOut.v.Trend = fnArg.trendThreshold
    /\ ~fnOut.v.Anomaly

\* all values of the series are equal
IsConstant(values) == \A i, j \in DOMAIN values : values[i] = values[j]

\* C18: the standard deviation calculateStats gives for a constant series is
\* exactly 0, and the z-score test on it is false for every anomalyThreshold.
C18_ConstantSeries ==
    (fnOut # Nil /\ fnOut.kind = "stats" /\ Len(fnArg.values) > 0 /\ IsConstant(fnArg.values)) =>
        (fnOut.v.stdDev = 0 /\ ~fnOut.anomaly)

\* the values go up by d from one to the next
IsArithmetic(values, d) == \A i \in 1..(Len(values) - 1) : values[i + 1] - values[i] = d

\* C19: calculateTrend gives 0 for fewer than two values and d for two or
\* more values that go up by d from one to the next (0 for a constant
\* series); the divisor n*sum(x^2) - (sum x)^2 is positive for n >= 2.
C19_Slope ==
    /\ (fnOut # Nil /\ fnOut.kind = "trend") =>
          /\ Len(fnArg.values) < 2 => fnOut.v = 0
          /\ Len(fnArg.values) >= 2 =>
                /\ TrendDenominator(Len(fnArg.values)) > 0
                /\ \A d \in {fnArg.values[2] - fnArg.values[1]} :
                      IsArithmetic(fnArg.values, d) => fnOut.v = d

\* C19 witness: the slope of 0, 1, 2, 3, 4 is 1.
C19_Witness ==
    /\ fnOut # Nil
    /\ fnOut.kind = "trend"
    /\ fnArg.values = Fx(<<0, 1, 2, 3, 4>>)
    /\ fnOut.v = Scale

-----------------------------------------------------------------------------
(* The tiers of the engine's stress formula, checked under SpecStress *)

RECURSIVE PartitionLoop(_, _, _)
\* the loop over trend.Filesystem.Partitions, visited in the order ord, from
\* the risk accumulated before it
PartitionLoop(ord, partitions, risk) ==
    IF ord = <<>> THEN risk
    ELSE PartitionLoop(Tail(ord), partitions, risk + PartitionRisk(Head(ord), partitions[Head(ord)]))

\* the Trend without its partitions, and without one of them
WithoutPartitions(trend) == [trend EXCEPT !.Filesystem.Partitions = EmptyMap]
WithoutPartition(trend, m) ==
    [trend EXCEPT !.Filesystem.Partitions =
        [k \in DOMAIN trend.Filesystem.Partitions \ {m} |-> trend.Filesystem.Partitions[k]]]

\* the tier of a mean among the limits lim, highest first, worth pts
RECURSIVE HighestTier(_, _, _)
HighestTier(mean, lim, pts) ==
    IF lim = <<>> THEN 0
    ELSE IF mean > Head(lim) * Scale THEN Head(pts)
    ELSE HighestTier(mean, Tail(lim), Tail(pts))

\* the level tier of a partition: critical, else low, else nothing
LevelTier(m, fs) ==
    IF fs.Critical THEN (IF m = "/" THEN 30 ELSE IF m = "/boot" THEN 25 ELSE 15)
    ELSE IF fs.Current < 20 * Scale THEN (IF m = "/" THEN 15 ELSE IF m = "/boot" THEN 10 ELSE 5)
    ELSE 0

\* the slope tier of a partition
SlopeTier(fs) == IF fs.Trend < -Scale THEN 15 ELSE IF 2 * fs.Trend < -Scale THEN 5 ELSE 0

\* C20: in the risk calculateSystemStress of trend.go accumulates, the CPU
\* mean, the memory mean, the process-count mean and the aggregate filesystem
\* flag each add the one highest tier they reach (critical before anomaly),
\* each partition adds one level tier and one slope tier, and the risk is the
\* same in whatever order the partitions are visited.
C20_SingleTier ==
    (fnOut # Nil /\ fnArg.kind = "trend") =>
        \A t \in {fnArg.v} :
            /\ fnOut.risk - TrendRisk([t EXCEPT !.CPUUsage.Mean = 0])
                  = HighestTier(t.CPUUsage.Mean, <<20, 10>>, <<20, 10>>)
            /\ fnOut.risk - TrendRisk([t EXCEPT !.MemoryUsage.Mean = 0])
                  = HighestTier(t.MemoryUsage.Mean, <<90, 80, 70>>, <<30, 20, 10>>)
            /\ fnOut.risk - TrendRisk([t EXCEPT !.ProcessCount.Mean = 0])
                  = HighestTier(t.ProcessCount.Mean, <<100, 50>>, <<20, 10>>)
            /\ fnOut.risk - TrendRisk([t EXCEPT !.Filesystem.Critical = FALSE,
                                                !.Filesystem.Anomaly = FALSE])
                  = (IF t.Filesystem.Critical THEN 40 ELSE IF t.Filesystem.Anomaly THEN 20 ELSE 0)
            /\ \A m \in DOMAIN t.Filesystem.Partitions :
                  fnOut.risk - TrendRisk(WithoutPartition(t, m))
                     = LevelTier(m, t.Filesystem.Partitions[m]) + SlopeTier(t.Filesystem.Partitions[m])
            /\ \A ord \in Orders(t.Filesystem.Partitions) :
                  PartitionLoop(ord, t.Filesystem.Partitions, TrendRisk(WithoutPartitions(t)))
                     = fnOut.risk
            /\ fnOut.stress = Min2(fnOut.risk, 100)

\* C20 witness: means in the middle tiers, the critical flag with the anomaly
\* flag, and three partitions of three different levels.
C20_Witness ==
    /\ fnOut # Nil
    /\ fnArg.kind = "trend"
    /\ fnArg.v.CPUUsage.Mean = 15 * Scale
    /\ fnArg.v.MemoryUsage.Mean = 85 * Scale
    /\ fnArg.v.ProcessCount.Mean = 60 * Scale
    /\ fnArg.v.Filesystem.Critical
    /\ fnArg.v.Filesystem.Anomaly
    /\ DOMAIN fnArg.v.Filesystem.Partitions = {"/", "/boot", "/data"}
    /\ fnArg.v.Filesystem.Partitions["/"].Critical
    /\ fnArg.v.Filesystem.Partitions["/boot"].Trend = -(3 * Scale) \div 4
    /\ fnArg.v.Filesystem.Partitions["/data"].Current = 50 * Scale
    /\ fnOut.risk = 10 + 20 + 10 + 40 + (30 + 15) + (10 + 5) + 0

\* the Trend with a temperature block that adds nothing
WithoutTemperature(trend) ==
    [trend EXCEPT !.Temperature.ThresholdExceeded = FALSE, !.Temperature.Anomaly = FALSE,
                  !.Temperature.Max = 0]

\* the magnitude tier of an overall maximum
MagnitudeTier(max) ==
    IF max > 60 * Scale THEN 20 ELSE IF max > 50 * Scale THEN 10
    ELSE IF max < -20 * Scale THEN 20 ELSE IF max < -10 * Scale THEN 10 ELSE 0

\* C21: in the risk of the engine the temperature adds 50 when
\* ThresholdExceeded is set, with no magnitude tier and no anomaly bonus, and
\* otherwise the one magnitude tier of Max plus 15 when Anomaly is set: 50
\* exactly when the threshold is exceeded and at most 35 otherwise.
C21_TemperatureFactor ==
    (fnOut # Nil /\ fnArg.kind = "trend") =>
        \A added_ \in {fnOut.risk - TrendRisk(WithoutTemperature(fnArg.v))} :
            /\ fnArg.v.Temperature.ThresholdExceeded => added_ = 50
            /\ ~fnArg.v.Temperature.ThresholdExceeded =>
                  /\ added_ = MagnitudeTier(fnArg.v.Temperature.Max)
                               + (IF fnArg.v.Temperature.Anomaly THEN 15 ELSE 0)
                  /\ added_ <= 35

\* C21 witness: the threshold is exceeded with a maximum above 60 and the
\* anomaly flag set, and the risk is that of the other factors plus 50.
C21_Witness ==
    /\ fnOut # Nil
    /\ fnArg.kind = "trend"
    /\ fnArg.v.Temperature.ThresholdExceeded
    /\ fnArg.v.Temperature.Anomaly
    /\ fnArg.v.Temperature.Max = 75 * Scale
    /\ fnArg.v.MemoryUsage.Mean = 0
    /\ fnOut.risk = 50

-----------------------------------------------------------------------------
(* The overall temperature block of Analyze, checked under SpecEngine *)

\* the values f gives for the sensors of a Trend
OverSensors(t, f(_)) == {f(t.Temperature.Sensors[n]) : n \in DOMAIN t.Temperature.Sensors}

MaxOf(S) == CHOOSE x \in S : \A y \in S : y <= x
MinOf(S) == CHOOSE x \in S : \A y \in S : x <= y

SensorMax(ss) == ss.Max
SensorMin(ss) == ss.Min

\* sum of the means of the sensors of a Trend
SumOfMeans(t) ==
    SumOver([n \in DOMAIN t.Temperature.Sensors |-> t.Temperature.Sensors[n].Mean],
            DOMAIN t.Temperature.Sensors)

\* C22: in every Trend with a sensor the overall Temperature.Max is the
\* largest of the sensors' maxima, the overall Temperature.Min the smallest
\* of the sensors' minima, whatever the readings and the order in which the
\* sensors are visited, and the overall Mean is the mean of the sensors' means.
C22_OverallExtremes ==
    \A t \in Trends \ {Nil} :
        DOMAIN t.Temperature.Sensors # {} =>
            /\ t.Temperature.Max = MaxOf(OverSensors(t, SensorMax))
            /\ t.Temperature.Min = MinOf(OverSensors(t, SensorMin))
            /\ t.Temperature.Mean = TDiv(SumOfMeans(t), Cardinality(DOMAIN t.Temperature.Sensors))

-----------------------------------------------------------------------------
(* The temperature block of Analyze as a function of the sensor series *)

\* the series a sensor can have after AddStats calls on an engine whose two
\* windows are MaxLongWindow
SensorSeries == UNION {[1..n -> {0, 45, 50, 71}] : n \in 1..MaxLongWindow}

\* the series maps of an engine that has seen some of two sensors
SeriesMaps == UNION {[ns -> SensorSeries] : ns \in SUBSET {"cpu", "board"}}

InitTemperature ==
    /\ cfg \in {c \in Configs : c.window = MaxLongWindow /\ c.longTermWindow = MaxLongWindow}
    /\ InitCommon
    /\ fnArg \in SeriesMaps

\* the temperature part of t.Analyze(), the maps being visited in some order
ApplyTemperatureTrend ==
    /\ fnOut = Nil
    /\ \E ord \in Orders(fnArg), lord \in Orders(fnArg) :
          fnOut' = TemperatureTrend(fnArg, fnArg, cfg, ord, lord)
    /\ UNCHANGED <<cfg, engineVars, added, result, files, err, loopVars, fnArg>>

NextTemperature == ApplyTemperatureTrend

SpecTemperature == InitTemperature /\ [][NextTemperature]_vars

\* C23: in every Trend the overall Temperature.Anomaly flag is set when the
\* Anomaly flag of some sensor is set.
C23_AnomalyAcrossSensors ==
    fnOut # Nil =>
        ((\E n \in DOMAIN fnOut.Sensors : fnOut.Sensors[n].Anomaly) => fnOut.Anomaly)

-----------------------------------------------------------------------------
(* The partition tiers of the two stress formulas, checked under SpecStress *)

\* the summary without one of its partitions
SummaryWithoutPartition(s, m) ==
    [s EXCEPT !.Filesystem.Partitions =
        [k \in DOMAIN s.Filesystem.Partitions \ {m} |-> s.Filesystem.Partitions[k]]]

\* what the summary formula adds for the partition m
SummaryAdds(m) == fnOut.risk - SummaryRisk(SummaryWithoutPartition(fnArg.v, m))

\* what the engine formula adds for the level of a partition m that has the
\* free percentage free
EngineAdds(m, free) ==
    PartitionRisk(m, [Critical |-> free < 10, Current |-> free * Scale, Trend |-> 0])

\* the amounts of the claim as it was stated: those of the engine
C24_Original ==
    (fnOut # Nil /\ fnArg.kind = "summary") =>
        \A m \in DOMAIN fnArg.v.Filesystem.Partitions :
            SummaryAdds(m) = EngineAdds(m, fnArg.v.Filesystem.Partitions[m].FreeSpace)

\* C24: the summary formula tiers a partition as the engine formula does,
\* with amounts of its own: a free percentage below 10 adds 40 on the root
\* mount, 30 on /boot and 20 on any other mount, and otherwise one below 20
\* adds 20, 15 and 10; for the same free percentage the two formulas add for
\* the same tier, the summary the larger amount.
C24_SummaryPartitionTiers ==
    (fnOut # Nil /\ fnArg.kind = "summary") =>
        \A m \in DOMAIN fnArg.v.Filesystem.Partitions :
            \A free \in {fnArg.v.Filesystem.Partitions[m].FreeSpace} :
                /\ SummaryAdds(m) =
                      (IF free < 10 THEN (IF m = "/" THEN 40 ELSE IF m = "/boot" THEN 30 ELSE 20)
                       ELSE IF free < 20 THEN (IF m = "/" THEN 20 ELSE IF m = "/boot" THEN 15 ELSE 10)
                       ELSE 0)
                /\ (SummaryAdds(m) = 0) <=> (EngineAdds(m, free) = 0)
                /\ SummaryAdds(m) # 0 => SummaryAdds(m) > EngineAdds(m, free)

\* C24 witness: a summary with the root mount critical, /boot low and another
\* mount at exactly 10 percent free.
C24_Witness ==
    /\ fnOut # Nil
    /\ fnArg.kind = "summary"
    /\ DOMAIN fnArg.v.Filesystem.Partitions = {"/", "/boot", "/data"}
    /\ fnArg.v.Filesystem.Partitions["/"].FreeSpace = 5
    /\ fnArg.v.Filesystem.Partitions["/boot"].FreeSpace = 15
    /\ fnArg.v.Filesystem.Partitions["/data"].FreeSpace = 10
    /\ fnOut.risk = 40 + 15 + 10

-----------------------------------------------------------------------------
(* The stress of the running summary, checked under SpecSummary *)

\* the partitions of the sample of the latest Update, as the summary stores them
LatestSamplePartitions ==
    LET fs == added[Len(added)].stats.fs
    IN IF fs.isNil THEN EmptyMap
       ELSE [m \in DOMAIN fs.parts |-> [FreeSpace |-> 100 - fs.parts[m].usedPct]]

\* C25: after an Update the summary's SystemStress is its formula evaluated
\* on the values of that Update's sample: the CPU, memory, load and process
\* tiers of the sample, and the partition terms of the free percentages of
\* the partitions of that sample.
C25_StressOfLatestSample ==
    added # <<>> =>
        summary.SystemStress =
            SummaryStress([summary EXCEPT !.Filesystem.Partitions = LatestSamplePartitions])

-----------------------------------------------------------------------------
(* The summary and the samples of a tick, checked under Spec *)

\* a summary without the fields that name the last crash dump
WithoutCrashFields(s) == [s EXCEPT !.LastCrashFile = NoFile, !.LastCrashTime = 0]

\* C26: apart from LastCrashFile and LastCrashTime the summary a tick leaves
\* is the one the Update of the tick produced, whether or not the tick went
\* on to a crash dump, so each history of the summary gains one entry per tick.
C26_SummaryIndependentOfDump ==
    [][(stage = "dump" /\ stage' = "log")
          => WithoutCrashFields(summary') = WithoutCrashFields(summary)]_vars

\* a reading of the tick is above the temperature threshold
HotReading == \E n \in DOMAIN tick.tempStats : tick.tempStats[n] * Scale > cfg.tempThreshold

\* C27: the temperatures and the filesystems read in a tick are part of the
\* sample given to AddStats, so that when a reading of the tick is above
\* tempThreshold and Analyze returns a Trend, the Trend has
\* Temperature.ThresholdExceeded set and the tick goes on to a crash dump.
C27_ReadingsJoined ==
    (stage \in {"dump", "log"} /\ tick.trend # Nil) =>
        /\ history[Len(history)].fs = tick.stats.fs
        /\ history[Len(history)].temp = tick.tempStats
        /\ HotReading =>
              /\ tick.trend.Temperature.ThresholdExceeded
              /\ (stage = "dump" \/ tick.dump # "none")

-----------------------------------------------------------------------------
(* Analyze as a function of the engine's state, checked under SpecEngine *)

\* C28: Analyze changes neither the history nor a sensor series, and the
\* Trend it returns is the same for every order in which the sensors are
\* visited, so that two calls with no AddStats in between return the same
\* Trend.
C28_AnalyzeDeterministic ==
    /\ [](\A t1, t2 \in Trends : t1 = t2)
    /\ [][(result' # result /\ result' # Nil) => UNCHANGED engineVars]_vars

\* the short series of sensor n holds a reading above the threshold
HoldsHotReading(n) == \E i \in DOMAIN tempHistory[n] : tempHistory[n][i] * Scale > cfg.tempThreshold

\* an AddStats step leaves alone the series of the sensors its sample lacks
LacksLeaveAlone ==
    added' # added =>
        \A n \in DOMAIN tempHistory :
            n \notin DOMAIN added'[Len(added')].temp =>
                /\ n \in DOMAIN tempHistory'
                /\ tempHistory'[n] = tempHistory[n]
                /\ longTermTempHistory'[n] = longTermTempHistory[n]

\* C29: AddStats changes the series of the sensors of its sample only; as long
\* as the short series of a sensor holds a reading above tempThreshold, every
\* Trend Analyze returns has Temperature.ThresholdExceeded set, also when no
\* sample of the history carries the sensor any more.
C29_SeriesOutliveHistory ==
    /\ []((\E n \in DOMAIN tempHistory : HoldsHotReading(n)) =>
             \A t \in Trends \ {Nil} : t.Temperature.ThresholdExceeded)
    /\ [][LacksLeaveAlone]_vars

\* C29 witness: Analyze returned a Trend with the threshold exceeded for a
\* sensor whose reading above the threshold came with a sample that has left
\* the history.
C29_Witness ==
    /\ result # Nil
    /\ result \in Trends
    /\ result.Temperature.ThresholdExceeded
    /\ Len(added) > Len(history)
    /\ \E n \in DOMAIN tempHistory :
          /\ HoldsHotReading(n)
          /\ \A i \in DOMAIN history : n \notin DOMAIN history[i].temp

-----------------------------------------------------------------------------
(* A sample with no memory, checked under Spec *)

\* C30: after a tick whose sample reports Memory.Total = 0 the engine has
\* taken a memory use of 0 for the sample, and the summary holds a finite
\* used percentage, so that it can be serialised and saved.
C30_ZeroTotalMemory ==
    (stage \in {"dump", "log"} /\ tick.stats.memTotal = 0) =>
        /\ memUsages(history)[Len(history)] = 0
        /\ summary.Memory.UsedPc \notin {NaN, PosInf}
        /\ Serialisable(summary)

=============================================================================
